---- MODULE Spec2Model ----
(***************************************************************************)
(* Multi-account AWS MCP bridge.                                           *)
(*                                                                         *)
(* The module models the Lambda bridge of agentcore-gateway                *)
(* (lambda/handler.py) on one warm execution context, and the credential   *)
(* broker of direct-proxy (agent/account_manager.py).  The repository      *)
(* holds two alternative deployments; `deployment` says which one a        *)
(* behaviour is about.  The account registry of direct-proxy               *)
(* (AccountManager.list_accounts) has a specification of its own,          *)
(* SpecRegistry, and so has its MCP client (agent/mcp_client.py),          *)
(* SpecClient.  SpecAgent is the agent of agentcore-gateway                *)
(* (agent/central_ops_agent.py), the caller of the bridge.                 *)
(*                                                                         *)
(* Time is counted in minutes.  An invocation is a sequence of steps that  *)
(* are separated by its blocking outbound calls (sts:AssumeRole, the MCP   *)
(* initialize handshake, the MCP tools/call); each step runs the code      *)
(* from one outbound call's answer up to the next outbound call or to the  *)
(* return of the handler.                                                  *)
(***************************************************************************)
EXTENDS Integers, Sequences, FiniteSets, TLC

(***************************************************************************)
(* Bounds of the model.                                                    *)
(***************************************************************************)
\* the clock stops advancing at MaxTime
MaxTime == 80

\* Jumps of the clock between invocations.  With a credential issued at t
\* and expiring at t + 60 they show it inside the validity window (t + 25,
\* t + 30, t + 50), on the boundary now + 5 = expiration (t + 55), at its
\* expiration (t + 60) and after it (t + 75, t + 80).
Deltas == {25, 30}

(***************************************************************************)
(* Program constants.                                                      *)
(***************************************************************************)
\* handler.py: timedelta(minutes=5); account_manager.py: REFRESH_BUFFER
RefreshBuffer == 5
\* DurationSeconds=3600 / SESSION_DURATION, in minutes
SessionDuration == 60

TARGET_ROLE_NAME == "CentralOpsTargetRole"

GLOBAL_TOOLS ==
    { "aws___search_documentation",
      "aws___read_documentation",
      "aws___retrieve_agent_sop",
      "aws___recommend",
      "aws___suggest_aws_commands" }

(***************************************************************************)
(* Values.                                                                 *)
(***************************************************************************)
Accounts == {"222222222222", "333333333333"}

\* a key that is not in the event / body (dict.get gives None)
Absent == "<absent>"
\* the empty string
Empty == ""

\* Python truthiness of an optional string: None and "" are falsy
Falsy(s) == s \in {Absent, Empty}

Scopes == Accounts \cup {"global"}

\* the 'arguments' of an event: absent, or a JSON object
NoArguments == [present |-> FALSE, value |-> <<>>]

\* the event before handler has been given one
NoEvent ==
    [ ctx |-> <<>>, body |-> "n/a", action |-> "n/a", tool |-> Absent,
      account |-> Absent, region |-> Absent, arguments |-> NoArguments ]

\* what STS minted: which account's role, and when
NoToken == [role_account |-> "none", role |-> "none", issued |-> -1]

NoCred ==
    [ access_key_id     |-> NoToken,
      secret_access_key |-> NoToken,
      session_token     |-> NoToken,
      expiration        |-> -1 ]

\* the Lambda's own execution-role identity (boto3.Session() without keys)
Ambient ==
    [ access_key_id     |-> [role_account |-> "ambient", role |-> "lambda", issued |-> -1],
      secret_access_key |-> [role_account |-> "ambient", role |-> "lambda", issued |-> -1],
      session_token     |-> [role_account |-> "ambient", role |-> "lambda", issued |-> -1],
      expiration        |-> -1 ]

\* A session identifier is opaque to the bridge.  The server binds it to
\* the identity that signed the initialize (scope) and picks its value (n).
NoSession == [scope |-> "none", n |-> 0]

\* the body of a downstream JSON-RPC response
NoBody == [kind |-> "none", name |-> ""]

\* what an initialize was answered, as far as the bridge looks at it:
\* whether urlopen raised, the body, the name of the session header and
\* whether its value is non-empty
NoHandshake == [raised |-> FALSE, kind |-> "none", header |-> "<absent>", value |-> FALSE]

\* What handler gave its caller.  error / body: the object it returned
\* (Gateway shape) or serialized (direct shape), that is {'error': message}
\* or the downstream response; text: the 'body' string of the direct shape.
NoResult == [raised |-> FALSE, statusCode |-> -1, error |-> <<>>, body |-> NoBody, text |-> <<>>]

(***************************************************************************)
(* State.                                                                  *)
(***************************************************************************)
VARIABLES
    deployment,          \* "agentcore-gateway" or "direct-proxy"
    now,                 \* datetime.now(timezone.utc), in minutes
    credential_cache,    \* handler.credential_cache / AccountManager.credential_cache
    session_cache,       \* handler.session_cache
    global_session_id,   \* handler.global_session_id
    inv,                 \* the invocation each execution slot is running
    accounts,            \* AccountManager.accounts, the loaded registry
    listed,              \* what AccountManager.list_accounts returned
    mcp_client,          \* the MCPClient and the call it is in
    agent,               \* the agent process and the call it is in
    brokers              \* the two credential brokers, given the same calls

\* the state of the bridge and of the credential broker
bridge == <<deployment, now, credential_cache, session_cache, global_session_id, inv>>

\* the state of the programs around them
others == <<accounts, listed, mcp_client, agent, brokers>>

vars == <<deployment, now, credential_cache, session_cache, global_session_id, inv,
          others>>

\* execution slots that share the module-level caches of one context
Slots == {1, 2}

\* the Lambda runtime runs one invocation at a time per warm context
LambdaSlots == {1}

Idle ==
    [ pc       |-> "idle",
      ev       |-> NoEvent,    \* the event as handler was given it
      shape    |-> "none",
      ctx      |-> <<>>,
      body     |-> "n/a",
      action   |-> "n/a",
      tool     |-> Absent,
      account  |-> Absent,
      region   |-> Absent,
      arguments |-> <<>>,      \* tool_args
      path     |-> <<>>,       \* calls of call_aws_mcp / call_aws_mcp_global
      scope    |-> "none",     \* the account, or "global", once classified
      called   |-> FALSE,      \* get_credentials was entered
      creds    |-> NoCred,     \* what get_credentials returned
      session  |-> NoSession,  \* what get_or_create_*_mcp_session returned
      calls    |-> <<>>,       \* outbound requests sent, in order
      handshake |-> NoHandshake, \* what the initialize was answered
      touched  |-> {},         \* module-level caches read or written
      received |-> NoBody,     \* the body the tools/call was answered
      result   |-> NoResult,
      pre_cc   |-> [a \in Accounts |-> NoCred],
      pre_sc   |-> [a \in Accounts |-> NoSession],
      pre_gs   |-> NoSession,
      at       |-> -1 ]

(***************************************************************************)
(* Messages.  A message is the sequence of its words, so that "the error   *)
(* names account_id" is a property of the message.                         *)
(***************************************************************************)
MissingToolName == <<"Missing", "tool_name">>

MissingAccountId(mcp_tool) == <<"Missing", "account_id", "(required for", mcp_tool, ")">>

UnknownToolMsg(tool_name) == <<"Unknown", "tool:">> \o tool_name

UnknownActionMsg(action) == <<"Unknown", "action:", action>>

InvalidJsonBody == <<"Invalid", "JSON", "body">>

\* str(e) of the botocore ClientError of a refused sts:AssumeRole
AssumeRoleDenied == <<"AccessDenied", "sts:AssumeRole">>

\* str(e) of urllib's URLError / HTTPError / timeout
TransportFailure == <<"urlopen", "error">>

SessionFailure(result) == <<"Failed", "to", "initialize", "MCP", "session:", result.kind>>

GlobalSessionFailure(result) ==
    <<"Failed", "to", "initialize", "global", "MCP", "session:", result.kind>>

Names(msg, word) == \E i \in 1..Len(msg) : msg[i] = word

(***************************************************************************)
(* JSON.  An object is the sequence of its members <<key, value>> in       *)
(* insertion order, a value the sequence of the words of its text; a JSON  *)
(* text is the sequence of its tokens.                                     *)
(***************************************************************************)
\* {'error': message}
ErrorObject(msg) == << <<"error", msg>> >>

\* the JSON-RPC response a body of the model stands for: the members every
\* response to request 1 has, and its 'result' or its 'error' member
ResponseObject(body) ==
    << <<"jsonrpc", <<"2.0">>>>, <<"id", <<"1">>>>, <<body.kind, <<body.name>>>> >>

RECURSIVE JsonMembers(_)
JsonMembers(obj) ==
    IF obj = <<>>
    THEN <<>>
    ELSE <<obj[1][1], ":">> \o obj[1][2]
            \o (IF Len(obj) > 1 THEN <<",">> ELSE <<>>)
            \o JsonMembers(Tail(obj))

\* json.dumps(obj) / json.dumps(obj, default=str): the objects handler
\* serializes hold strings and parsed JSON only, which never reach default
JsonDumps(obj) == <<"{">> \o JsonMembers(obj) \o <<"}">>

\* the first "," or "}" of a text at or after position i
NextSeparator(text, i) ==
    CHOOSE j \in i..Len(text) :
        /\ text[j] \in {",", "}"}
        /\ \A k \in i..(j - 1) : text[k] \notin {",", "}"}

RECURSIVE JsonParse(_, _)
JsonParse(text, i) ==
    IF i > Len(text)
    THEN <<>>
    ELSE LET j == NextSeparator(text, i)
         IN  << <<text[i], SubSeq(text, i + 2, j - 1)>> >> \o JsonParse(text, j + 1)

\* json.loads(text) of the text of an object
JsonLoads(text) == IF text = <<"{", "}">> THEN <<>> ELSE JsonParse(text, 2)

(***************************************************************************)
(* Pure parts of handler.py.                                               *)
(***************************************************************************)
\* mutant: split('___')[1], the second part alone
CtxToolName_SecondPart(full_tool_name) ==
    IF Len(full_tool_name) > 1 THEN <<full_tool_name[2]>> ELSE full_tool_name

\* handler.py 236-240.  A full tool name is the sequence of its parts
\* between "___"; split('___', 1)[1] drops the first part and keeps the
\* rest joined, a name without "___" is kept whole.
CtxToolName(full_tool_name) ==
    IF Len(full_tool_name) > 1 THEN Tail(full_tool_name) ELSE full_tool_name

IsGlobalTool(mcp_tool) == mcp_tool \in GLOBAL_TOOLS

\* mutant: the boundary now + 5 minutes = expiration taken as usable
CredentialsUsable_NonStrict(creds, t) == t + RefreshBuffer <= creds.expiration

\* mutant: the refresh buffer forgotten
CredentialsUsable_NoBuffer(creds, t) == t < creds.expiration

\* handler.py 52: now + timedelta(minutes=5) < creds['expiration']
CredentialsUsable(creds, t) == t + RefreshBuffer < creds.expiration

\* mutant: the cache not looked up by the account: any usable credential
\* it holds is returned
CachedCredentials_AnyAccount(cache, account_id, t) ==
    LET usable == {a \in Accounts : cache[a] # NoCred /\ CredentialsUsable(cache[a], t)}
    IN  IF usable # {}
        THEN cache[CHOOSE a \in usable : a = account_id \/ account_id \notin usable]
        ELSE NoCred

\* handler.py 50-53: the cached credentials get_credentials returns
\* without calling STS, NoCred when it has to call STS
CachedCredentials(cache, account_id, t) ==
    IF cache[account_id] # NoCred /\ CredentialsUsable(cache[account_id], t)
    THEN cache[account_id]
    ELSE NoCred

\* sts.assume_role(RoleArn=arn:aws:iam::<account_id>:role/<TARGET_ROLE_NAME>,
\* DurationSeconds=3600) answered at time t
AssumeRoleResponse(account_id, t) ==
    LET token == [role_account |-> account_id, role |-> TARGET_ROLE_NAME, issued |-> t]
    IN  [ AccessKeyId     |-> token,
          SecretAccessKey |-> token,
          SessionToken    |-> token,
          Expiration      |-> t + SessionDuration ]

\* handler.py 62-67
CredsOfResponse(response) ==
    [ access_key_id     |-> response.AccessKeyId,
      secret_access_key |-> response.SecretAccessKey,
      session_token     |-> response.SessionToken,
      expiration        |-> response.Expiration ]

\* handler.py 79-96: the request make_mcp_request signs and sends: the
\* method, of params the tool name and the arguments (of an initialize the
\* client name), the signer and the session header, which is set only for a
\* truthy session_id.
McpRequest(method, name, arguments, boto_session, session_id) ==
    [ method  |-> method,
      name    |-> name,
      arguments |-> arguments,
      signer  |-> boto_session,
      account |-> boto_session.access_key_id.role_account,
      header  |-> session_id ]

\* the sts.assume_role request; the STS client is built from the Lambda's
\* own identity
StsRequest(account_id) ==
    [ method  |-> "assume_role",
      name    |-> TARGET_ROLE_NAME,
      arguments |-> <<>>,
      signer  |-> Ambient,
      account |-> account_id,
      header  |-> NoSession ]

\* handler.py 128 / 159: headers.get('Mcp-Session-Id') or
\* headers.get('mcp-session-id') on dict(resp.headers), whose keys keep the
\* casing the server sent.  An empty value is falsy.
SessionIdOf(headers) ==
    IF headers.name \in {"Mcp-Session-Id", "mcp-session-id"}
    THEN headers.value
    ELSE NoSession

\* mutant: the 'error' member of the body not looked at
HandshakeOk_IgnoresError(result, headers) == SessionIdOf(headers) # NoSession

\* handler.py 129 / 160
HandshakeOk(result, headers) ==
    SessionIdOf(headers) # NoSession /\ result.kind # "error"

(***************************************************************************)
(* Inputs.                                                                 *)
(***************************************************************************)
\* context.client_context.custom['bedrockAgentCoreToolName'], as its parts
\* between "___"; <<>> when the context carries none (a direct invocation)
NoContext == <<>>

CtxInputs ==
    { NoContext,
      <<"bridge-lambda", "query">>,
      <<"query">>,
      <<"bridge-lambda", "unknown_tool">>,
      <<"bridge-lambda", "query", "v2">> }

\* event['body'] of a direct invocation: a JSON object, text that is not
\* JSON, or JSON that is not an object (a list, a string, null)
BodyInputs == {"object", "invalid_json", "non_object"}

ActionInputs == {"query", "invalid_action"}

\* a global tool, tools the downstream server serves per account, and a
\* name no server knows
KnownAccountTools == {"aws___list_regions", "aws___call_aws"}

\* 'arguments' that are given: a JSON object with one member
Arguments(key, word) == [present |-> TRUE, value |-> << <<key, <<word>>>> >>]

\* the fields of a query: each row is <<tool_name, account_id, region,
\* arguments>>
QueryInputs ==
    { <<Absent, Absent, Absent, NoArguments>>,
      <<Empty, "222222222222", Absent, NoArguments>>,
      <<"aws___search_documentation", Absent, Absent, NoArguments>>,
      <<"aws___search_documentation", "222222222222", Absent,
        Arguments("search_phrase", "lambda")>>,
      <<"aws___list_regions", Absent, Absent, NoArguments>>,
      <<"aws___list_regions", Empty, Absent, NoArguments>>,
      <<"aws___list_regions", "222222222222", Absent, NoArguments>>,
      <<"aws___list_regions", "333333333333", Absent, NoArguments>>,
      <<"aws___list_regions", "222222222222", "us-west-2",
        Arguments("filter", "opted-in")>>,
      <<"no_such_operation", "333333333333", Absent, NoArguments>> }

Event(ctx, body, action, q) ==
    [ ctx |-> ctx, body |-> body, action |-> action, tool |-> q[1],
      account |-> q[2], region |-> q[3], arguments |-> q[4] ]

Events ==
    \* Gateway invocations of the query tool, and direct query invocations
    { Event(<<"bridge-lambda", "query">>, "n/a", "n/a", q) : q \in QueryInputs }
    \cup { Event(NoContext, "object", "query", q) : q \in QueryInputs }
    \* a Gateway tool name without a target prefix
    \cup { Event(<<"query">>, "n/a", "n/a",
                  <<"aws___list_regions", "222222222222", Absent, NoArguments>>) }
    \* Gateway invocations of another tool
    \cup { Event(<<"bridge-lambda", "unknown_tool">>, "n/a", "n/a", q) :
              q \in { <<Absent, "222222222222", Absent, NoArguments>>,
                      <<"aws___list_regions", "222222222222", Absent, NoArguments>> } }
    \* a Gateway tool name whose rest after the first "___" is query___v2
    \cup { Event(<<"bridge-lambda", "query", "v2">>, "n/a", "n/a",
                  <<"aws___list_regions", "333333333333", "us-west-2",
                    Arguments("filter", "opted-in")>>) }
    \* direct invocations that are no query, or whose body is no JSON object
    \cup { Event(NoContext, "object", a, <<Absent, Absent, Absent, NoArguments>>) : a \in ActionInputs \ {"query"} }
    \cup { Event(NoContext, b, "n/a", <<Absent, Absent, Absent, NoArguments>>) : b \in BodyInputs \ {"object"} }

(***************************************************************************)
(* The steps of handler.py, as transformations of the invocation record.   *)
(***************************************************************************)
Done(r, res) == [r EXCEPT !.pc = "done", !.result = res]

\* a return of handler: the object itself for the Gateway shape,
\* {'statusCode': code, 'body': json.dumps(object)} for the direct shape
\* mutant: the direct shape answers a failed call with a fixed message
Reply_DirectHidesMessage(r, code, msg, body) ==
    Done(r, [ raised     |-> FALSE,
              statusCode |-> IF r.shape = "direct" THEN code ELSE 0,
              error      |-> msg,
              body       |-> body,
              text       |-> IF r.shape = "direct"
                             THEN JsonDumps(IF code = 500
                                            THEN ErrorObject(<<"Internal", "error">>)
                                            ELSE IF msg # <<>> THEN ErrorObject(msg)
                                            ELSE ResponseObject(body))
                             ELSE <<>> ])

Reply(r, code, msg, body) ==
    Done(r, [ raised     |-> FALSE,
              statusCode |-> IF r.shape = "direct" THEN code ELSE 0,
              error      |-> msg,
              body       |-> body,
              text       |-> IF r.shape = "direct"
                             THEN JsonDumps(IF msg # <<>> THEN ErrorObject(msg)
                                            ELSE ResponseObject(body))
                             ELSE <<>> ])

\* an exception that leaves handler
Raise(r, msg) ==
    Done(r, [raised |-> TRUE, statusCode |-> -1, error |-> msg, body |-> NoBody, text |-> <<>>])

\* handler.py 187-192 / 209-214: the tools/call request is sent
SendToolsCall(r, boto_session, session_id) ==
    [r EXCEPT !.pc = "tools_call",
              !.session = session_id,
              !.calls = Append(@, McpRequest("tools/call", r.tool, r.arguments, boto_session, session_id))]

\* handler.py 116-125 / 147-156: the initialize request is sent
SendInitialize(r, boto_session, client) ==
    [r EXCEPT !.pc = "initialize",
              !.calls = Append(@, McpRequest("initialize", client, <<>>, boto_session, NoSession))]

\* mutant: the session cache not looked at
GetOrCreateMcpSession_AlwaysInit(r, boto_session) ==
    SendInitialize([r EXCEPT !.touched = @ \cup {"session_cache"}], boto_session, "aws-mcp-bridge")

\* mutant: one session registry for both disciplines: an account without
\* an entry of its own takes the session of the global operations
GetOrCreateMcpSession_SharesGlobal(r, boto_session) ==
    LET r1 == [r EXCEPT !.touched = @ \cup {"session_cache"}]
    IN  IF session_cache[r.account] # NoSession
        THEN SendToolsCall(r1, boto_session, session_cache[r.account])
        ELSE IF global_session_id # NoSession
        THEN SendToolsCall(r1, boto_session, global_session_id)
        ELSE SendInitialize(r1, boto_session, "aws-mcp-bridge")

\* handler.py 110-125, up to its outbound call
GetOrCreateMcpSession(r, boto_session) ==
    LET r1 == [r EXCEPT !.touched = @ \cup {"session_cache"}]
    IN  IF session_cache[r.account] # NoSession
        THEN SendToolsCall(r1, boto_session, session_cache[r.account])
        ELSE SendInitialize(r1, boto_session, "aws-mcp-bridge")

\* handler.py 136-156, up to its outbound call
GetOrCreateGlobalMcpSession(r) ==
    LET r1 == [r EXCEPT !.touched = @ \cup {"global_session_id"}]
    IN  IF global_session_id # NoSession
        THEN SendToolsCall(r1, Ambient, global_session_id)
        ELSE SendInitialize(r1, Ambient, "aws-mcp-bridge-global")

\* handler.py 196-215, up to its first outbound call
CallAwsMcpGlobal(r) ==
    GetOrCreateGlobalMcpSession(
        [r EXCEPT !.scope = "global",
                  !.path = Append(@, [ fn |-> "call_aws_mcp_global",
                                       tool_name |-> r.tool,
                                       arguments |-> r.arguments,
                                       account_id |-> "n/a",
                                       region |-> "n/a" ])])

\* handler.py 167-192 with get_credentials 46-60, up to its first outbound
\* call
CallAwsMcp(r) ==
    LET r1 == [r EXCEPT !.scope = r.account,
                        !.path = Append(@, [ fn |-> "call_aws_mcp",
                                             tool_name |-> r.tool,
                                             arguments |-> r.arguments,
                                             account_id |-> r.account,
                                             region |-> r.region ]),
                        !.called = TRUE,
                        !.touched = @ \cup {"credential_cache"}]
        creds == CachedCredentials(credential_cache, r.account, now)
    IN  IF creds # NoCred
        THEN GetOrCreateMcpSession([r1 EXCEPT !.creds = creds, !.at = now], creds)
        ELSE [r1 EXCEPT !.pc = "assume_role",
                        !.calls = Append(@, StsRequest(r.account))]

\* mutant: a supplied account identifier decides the path before the
\* global set does
Query_AccountFirst(r) ==
    IF Falsy(r.tool)
    THEN Reply(r, 400, MissingToolName, NoBody)
    ELSE IF ~Falsy(r.account)
    THEN CallAwsMcp(r)
    ELSE IF IsGlobalTool(r.tool)
    THEN CallAwsMcpGlobal(r)
    ELSE Reply(r, 400, MissingAccountId(r.tool), NoBody)

\* mutant: the missing account identifier raised inside the try block
Query_MissingAccountRaises(r) ==
    IF Falsy(r.tool)
    THEN Reply(r, 400, MissingToolName, NoBody)
    ELSE IF IsGlobalTool(r.tool)
    THEN CallAwsMcpGlobal(r)
    ELSE IF Falsy(r.account)
    THEN Reply(r, 500, MissingAccountId(r.tool), NoBody)
    ELSE CallAwsMcp(r)

\* mutant: names outside the global set and the served account tools
\* rejected
Query_RejectsUnknown(r) ==
    IF Falsy(r.tool)
    THEN Reply(r, 400, MissingToolName, NoBody)
    ELSE IF IsGlobalTool(r.tool)
    THEN CallAwsMcpGlobal(r)
    ELSE IF r.tool \notin KnownAccountTools
    THEN Reply(r, 400, UnknownToolMsg(<<r.tool>>), NoBody)
    ELSE IF Falsy(r.account)
    THEN Reply(r, 400, MissingAccountId(r.tool), NoBody)
    ELSE CallAwsMcp(r)

\* mutant: the account identifier checked before the operation name
Query_AccountCheckedFirst(r) ==
    IF ~IsGlobalTool(r.tool) /\ Falsy(r.account)
    THEN Reply(r, 400, MissingAccountId(r.tool), NoBody)
    ELSE IF Falsy(r.tool)
    THEN Reply(r, 400, MissingToolName, NoBody)
    ELSE IF IsGlobalTool(r.tool)
    THEN CallAwsMcpGlobal(r)
    ELSE CallAwsMcp(r)

\* mutant: the region left out of the call of call_aws_mcp, which then
\* takes its default
Query_RegionNotPassed(r) ==
    IF Falsy(r.tool)
    THEN Reply(r, 400, MissingToolName, NoBody)
    ELSE IF IsGlobalTool(r.tool)
    THEN CallAwsMcpGlobal(r)
    ELSE IF Falsy(r.account)
    THEN Reply(r, 400, MissingAccountId(r.tool), NoBody)
    ELSE CallAwsMcp([r EXCEPT !.region = "us-east-1"])

\* handler.py 249-263 / 281-295, up to the first outbound call.  The
\* returns inside the try block are ordinary returns.
Query(r) ==
    IF Falsy(r.tool)
    THEN Reply(r, 400, MissingToolName, NoBody)
    ELSE IF IsGlobalTool(r.tool)
    THEN CallAwsMcpGlobal(r)
    ELSE IF Falsy(r.account)
    THEN Reply(r, 400, MissingAccountId(r.tool), NoBody)
    ELSE CallAwsMcp(r)

\* mutant: a body that is not JSON left to a catch-all that answers 500
Handler_InvalidJsonIs500(ev) ==
    LET r == [Idle EXCEPT !.pc = "start",
                          !.ev = ev,
                          !.arguments = IF ev.arguments.present
                                        THEN ev.arguments.value ELSE <<>>,
                          !.shape = IF ev.ctx = NoContext THEN "direct" ELSE "gateway",
                          !.ctx = ev.ctx,
                          !.body = ev.body,
                          !.action = ev.action,
                          !.tool = ev.tool,
                          !.account = ev.account,
                          !.region = IF ev.region = Absent THEN "us-east-1" ELSE ev.region,
                          !.pre_cc = credential_cache,
                          !.pre_sc = session_cache,
                          !.pre_gs = global_session_id]
    IN  IF ev.ctx # NoContext /\ CtxToolName(ev.ctx) = <<"query">>
        THEN Query(r)
        ELSE IF ev.ctx = NoContext
        THEN IF ev.body = "invalid_json"
             THEN Reply(r, 500, InvalidJsonBody, NoBody)
             ELSE IF ev.body = "non_object"
             THEN Raise(r, <<"AttributeError">>)
             ELSE IF ev.action = "query"
             THEN Query(r)
             ELSE Reply(r, 400, UnknownActionMsg(ev.action), NoBody)
        ELSE Reply(r, 0, UnknownToolMsg(CtxToolName(ev.ctx)), NoBody)

\* handler.py 218-301, up to the first outbound call
Handler(ev) ==
    LET r == [Idle EXCEPT !.pc = "start",
                          !.ev = ev,
                          !.arguments = IF ev.arguments.present
                                        THEN ev.arguments.value ELSE <<>>,
                          !.shape = IF ev.ctx = NoContext THEN "direct" ELSE "gateway",
                          !.ctx = ev.ctx,
                          !.body = ev.body,
                          !.action = ev.action,
                          !.tool = ev.tool,
                          !.account = ev.account,
                          !.region = IF ev.region = Absent THEN "us-east-1" ELSE ev.region,
                          !.pre_cc = credential_cache,
                          !.pre_sc = session_cache,
                          !.pre_gs = global_session_id]
    IN  IF ev.ctx # NoContext /\ CtxToolName(ev.ctx) = <<"query">>
        THEN Query(r)
        ELSE IF ev.ctx = NoContext
        THEN IF ev.body = "invalid_json"
             THEN Reply(r, 400, InvalidJsonBody, NoBody)
             ELSE IF ev.body = "non_object"
             THEN Raise(r, <<"AttributeError">>)
             ELSE IF ev.action = "query"
             THEN Query(r)
             ELSE Reply(r, 400, UnknownActionMsg(ev.action), NoBody)
        ELSE Reply(r, 0, UnknownToolMsg(CtxToolName(ev.ctx)), NoBody)

(***************************************************************************)
(* The downstream MCP server and STS, as far as the bridge sees them.      *)
(***************************************************************************)
\* the scope of the identity that signed a request
SignerScope(boto_session) ==
    IF boto_session = Ambient THEN "global" ELSE boto_session.access_key_id.role_account

\* the values of the session identifiers the server hands out
SessionValues == {1, 2}

\* the sessions the server may open for the signer of an initialize
NewSessions(boto_session) ==
    { [scope |-> SignerScope(boto_session), n |-> n] : n \in SessionValues }

\* what urlopen gives for an initialize: it raises, or there is a body
\* (a result or a JSON-RPC error) and, in some casing or not at all, a
\* session header whose value may be empty
InitializeAnswers(boto_session) ==
    { [raised |-> TRUE, result |-> NoBody, headers |-> [name |-> Absent, value |-> NoSession]] }
    \cup
    { [raised |-> FALSE, result |-> [kind |-> k, name |-> "initialize"], headers |-> h] :
        k \in {"result", "error"},
        h \in { [name |-> Absent, value |-> NoSession],
                [name |-> "Mcp-Session-Id", value |-> NoSession] }
              \cup { [name |-> nm, value |-> v] :
                        nm \in {"Mcp-Session-Id", "mcp-session-id", "MCP-SESSION-ID"},
                        v \in NewSessions(boto_session) } }

\* what the invocation record keeps of an answer
Handshake(ans) ==
    [ raised |-> ans.raised,
      kind   |-> ans.result.kind,
      header |-> ans.headers.name,
      value  |-> ans.headers.value # NoSession ]

\* what urlopen gives for a tools/call: it raises (HTTP error, timeout),
\* or there is a body: the result, or a JSON-RPC error
ToolsCallAnswers(name) ==
    { [raised |-> TRUE, result |-> NoBody] }
    \cup { [raised |-> FALSE, result |-> [kind |-> k, name |-> name]] : k \in {"result", "error"} }

(***************************************************************************)
(* Actions of the bridge (agentcore-gateway/lambda/handler.py).            *)
(***************************************************************************)
Quiet == \A q \in Slots : inv[q].pc = "idle"

\* handler is invoked with an event; it runs up to its first outbound
\* call, or returns
HandlerInvoked(p, events) ==
    /\ deployment = "agentcore-gateway"
    /\ inv[p].pc = "idle"
    /\ \E ev \in events : inv' = [inv EXCEPT ![p] = Handler(ev)]
    /\ UNCHANGED <<others, deployment, now, credential_cache, session_cache,
                   global_session_id>>

Invoke(p) == HandlerInvoked(p, Events)

\* the invocations that run side by side in SpecConcurrent
ConcurrentEvents ==
    { Event(<<"bridge-lambda", "query">>, "n/a", "n/a", q) :
         q \in { <<"aws___list_regions", "222222222222", Absent, NoArguments>>,
                 <<"aws___list_regions", "333333333333", Absent, NoArguments>> } }

ConcurrentInvoke(p) == HandlerInvoked(p, ConcurrentEvents)

\* mutant: the credentials not stored (line 68 left out)
AssumeRoleSucceeds_NoStore(p) ==
    LET r == inv[p]
        creds == CredsOfResponse(AssumeRoleResponse(r.account, now))
    IN  /\ deployment = "agentcore-gateway"
        /\ r.pc = "assume_role"
        /\ inv' = [inv EXCEPT ![p] =
                      GetOrCreateMcpSession([r EXCEPT !.creds = creds, !.at = now], creds)]
        /\ UNCHANGED <<others, deployment, now, credential_cache, session_cache, global_session_id>>

\* mutant: a refreshed credential taken as the end of the account's
\* session
AssumeRoleSucceeds_ResetsSession(p) ==
    LET r == inv[p]
        creds == CredsOfResponse(AssumeRoleResponse(r.account, now))
    IN  /\ deployment = "agentcore-gateway"
        /\ r.pc = "assume_role"
        /\ credential_cache' = [credential_cache EXCEPT ![r.account] = creds]
        /\ session_cache' = [session_cache EXCEPT ![r.account] = NoSession]
        /\ inv' = [inv EXCEPT ![p] =
                      SendInitialize([r EXCEPT !.creds = creds, !.at = now,
                                               !.touched = @ \cup {"session_cache"}],
                                     creds, "aws-mcp-bridge")]
        /\ UNCHANGED <<others, deployment, now, global_session_id>>

\* mutant: the cached record updated in place, key by key; the keys are
\* written, the token and the expiration are still to come
AssumeRoleSucceeds_InPlace(p) ==
    LET r == inv[p]
        creds == CredsOfResponse(AssumeRoleResponse(r.account, now))
    IN  /\ deployment = "agentcore-gateway"
        /\ r.pc = "assume_role"
        /\ credential_cache' =
              [credential_cache EXCEPT
                  ![r.account].access_key_id = creds.access_key_id,
                  ![r.account].secret_access_key = creds.secret_access_key]
        /\ inv' = [inv EXCEPT ![p] =
                      GetOrCreateMcpSession([r EXCEPT !.creds = creds, !.at = now], creds)]
        /\ UNCHANGED <<others, deployment, now, session_cache, global_session_id>>

\* handler.py 56-69, then 176-192: sts.assume_role answers
AssumeRoleSucceeds(p) ==
    LET r == inv[p]
        creds == CredsOfResponse(AssumeRoleResponse(r.account, now))
    IN  /\ deployment = "agentcore-gateway"
        /\ r.pc = "assume_role"
        /\ credential_cache' = [credential_cache EXCEPT ![r.account] = creds]
        /\ inv' = [inv EXCEPT ![p] =
                      GetOrCreateMcpSession([r EXCEPT !.creds = creds, !.at = now], creds)]
        /\ UNCHANGED <<others, deployment, now, session_cache, global_session_id>>

\* mutant: the failure handled by dropping every cached credential
AssumeRoleFails_ClearsCache(p) ==
    /\ deployment = "agentcore-gateway"
    /\ inv[p].pc = "assume_role"
    /\ inv' = [inv EXCEPT ![p] = Reply(inv[p], 500, AssumeRoleDenied, NoBody)]
    /\ credential_cache' = [a \in Accounts |-> NoCred]
    /\ UNCHANGED <<others, deployment, now, session_cache, global_session_id>>

\* mutant: a refused assume-role tried a second time
AssumeRoleFails_RetriesOnce(p) ==
    /\ deployment = "agentcore-gateway"
    /\ inv[p].pc = "assume_role"
    /\ inv' = [inv EXCEPT ![p] =
                  IF Len(inv[p].calls) < 2
                  THEN [inv[p] EXCEPT !.calls = Append(@, StsRequest(inv[p].account))]
                  ELSE Reply(inv[p], 500, AssumeRoleDenied, NoBody)]
    /\ UNCHANGED <<others, deployment, now, credential_cache, session_cache,
                   global_session_id>>

\* mutant: a refused assume-role falls back to the expired credentials of
\* the cache
AssumeRoleFails_UsesStale(p) ==
    /\ deployment = "agentcore-gateway"
    /\ inv[p].pc = "assume_role"
    /\ inv' = [inv EXCEPT ![p] =
                  IF credential_cache[inv[p].account] # NoCred
                  THEN GetOrCreateMcpSession(
                           [inv[p] EXCEPT !.creds = credential_cache[inv[p].account],
                                          !.at = now],
                           credential_cache[inv[p].account])
                  ELSE Reply(inv[p], 500, AssumeRoleDenied, NoBody)]
    /\ UNCHANGED <<others, deployment, now, credential_cache, session_cache,
                   global_session_id>>

\* sts.assume_role raises; handler.py 264-265 / 296-297 catch it
AssumeRoleFails(p) ==
    /\ deployment = "agentcore-gateway"
    /\ inv[p].pc = "assume_role"
    /\ inv' = [inv EXCEPT ![p] = Reply(inv[p], 500, AssumeRoleDenied, NoBody)]
    /\ UNCHANGED <<others, deployment, now, credential_cache, session_cache,
                   global_session_id>>

\* the request of the last outbound call of an invocation
LastCall(r) == r.calls[Len(r.calls)]

\* mutant: the handle stored with setdefault, which keeps an entry that
\* is there by then
InitializeAnswered_KeepsFirst(p) ==
    LET r0 == inv[p]
        signer == LastCall(r0).signer
    IN  /\ r0.pc = "initialize"
        /\ r0.scope \in Accounts
        /\ deployment = "agentcore-gateway"
        /\ \E ans \in InitializeAnswers(signer) :
              LET r == [r0 EXCEPT !.handshake = Handshake(ans)] IN
              /\ IF ans.raised
                 THEN /\ inv' = [inv EXCEPT ![p] = Reply(r, 500, TransportFailure, NoBody)]
                      /\ UNCHANGED session_cache
                 ELSE IF HandshakeOk(ans.result, ans.headers)
                 THEN /\ session_cache' =
                            IF session_cache[r.account] = NoSession
                            THEN [session_cache EXCEPT ![r.account] = SessionIdOf(ans.headers)]
                            ELSE session_cache
                      /\ inv' = [inv EXCEPT ![p] =
                                    SendToolsCall(r, signer, SessionIdOf(ans.headers))]
                 ELSE /\ inv' = [inv EXCEPT ![p] =
                                    Reply(r, 500, SessionFailure(ans.result), NoBody)]
                      /\ UNCHANGED session_cache
        /\ UNCHANGED <<others, deployment, now, credential_cache, global_session_id>>

\* mutant: the tools/call sent whatever the initialize was answered, with
\* the identifier of the answer, absent or not
InitializeAnswered_SendsAnyway(p) ==
    LET r0 == inv[p]
        signer == LastCall(r0).signer
    IN  /\ r0.pc = "initialize"
        /\ r0.scope \in Accounts
        /\ deployment = "agentcore-gateway"
        /\ \E ans \in InitializeAnswers(signer) :
              LET r == [r0 EXCEPT !.handshake = Handshake(ans)] IN
              /\ IF ans.raised
                 THEN /\ inv' = [inv EXCEPT ![p] = Reply(r, 500, TransportFailure, NoBody)]
                      /\ UNCHANGED session_cache
                 ELSE IF HandshakeOk(ans.result, ans.headers)
                 THEN /\ session_cache' =
                            [session_cache EXCEPT ![r.account] = SessionIdOf(ans.headers)]
                      /\ inv' = [inv EXCEPT ![p] =
                                    SendToolsCall(r, signer, SessionIdOf(ans.headers))]
                 ELSE /\ inv' = [inv EXCEPT ![p] =
                                    SendToolsCall(r, signer, SessionIdOf(ans.headers))]
                      /\ UNCHANGED session_cache
        /\ UNCHANGED <<others, deployment, now, credential_cache, global_session_id>>

\* handler.py 127-133, then 187-192: the initialize of an account session
\* is answered
InitializeAnswered(p) ==
    LET r0 == inv[p]
        signer == LastCall(r0).signer
    IN  /\ r0.pc = "initialize"
        /\ r0.scope \in Accounts
        /\ deployment = "agentcore-gateway"
        /\ \E ans \in InitializeAnswers(signer) :
              LET r == [r0 EXCEPT !.handshake = Handshake(ans)] IN
              /\ IF ans.raised
                 THEN /\ inv' = [inv EXCEPT ![p] = Reply(r, 500, TransportFailure, NoBody)]
                      /\ UNCHANGED session_cache
                 ELSE IF HandshakeOk(ans.result, ans.headers)
                 THEN /\ session_cache' =
                            [session_cache EXCEPT ![r.account] = SessionIdOf(ans.headers)]
                      /\ inv' = [inv EXCEPT ![p] =
                                    SendToolsCall(r, signer, SessionIdOf(ans.headers))]
                 ELSE /\ inv' = [inv EXCEPT ![p] =
                                    Reply(r, 500, SessionFailure(ans.result), NoBody)]
                      /\ UNCHANGED session_cache
        /\ UNCHANGED <<others, deployment, now, credential_cache, global_session_id>>

\* handler.py 158-164, then 209-214: the initialize of the global session
\* is answered
GlobalInitializeAnswered(p) ==
    LET r0 == inv[p]
    IN  /\ r0.pc = "initialize"
        /\ r0.scope = "global"
        /\ \E ans \in InitializeAnswers(Ambient) :
              LET r == [r0 EXCEPT !.handshake = Handshake(ans)] IN
              /\ IF ans.raised
                 THEN /\ inv' = [inv EXCEPT ![p] = Reply(r, 500, TransportFailure, NoBody)]
                      /\ UNCHANGED global_session_id
                 ELSE IF HandshakeOk(ans.result, ans.headers)
                 THEN /\ global_session_id' = SessionIdOf(ans.headers)
                      /\ inv' = [inv EXCEPT ![p] =
                                    SendToolsCall(r, Ambient, SessionIdOf(ans.headers))]
                 ELSE /\ inv' = [inv EXCEPT ![p] =
                                    Reply(r, 500, GlobalSessionFailure(ans.result), NoBody)]
                      /\ UNCHANGED global_session_id
        /\ UNCHANGED <<others, deployment, now, credential_cache, session_cache>>

\* mutant: a response with an 'error' member turned into a failure of the
\* bridge
ToolsCallAnswered_ErrorBodyRaises(p) ==
    LET r == inv[p]
    IN  /\ r.pc = "tools_call"
        /\ \E ans \in ToolsCallAnswers(r.tool) :
              inv' = [inv EXCEPT ![p] =
                         IF ans.raised
                         THEN Reply(r, 500, TransportFailure, NoBody)
                         ELSE IF ans.result.kind = "error"
                         THEN Reply([r EXCEPT !.received = ans.result], 500,
                                    <<"MCP", "error:", ans.result.name>>, NoBody)
                         ELSE Reply([r EXCEPT !.received = ans.result], 200, <<>>, ans.result)]
        /\ UNCHANGED <<others, deployment, now, credential_cache, session_cache,
                       global_session_id>>

\* mutant: a rejected tools/call taken as the end of the session, whose
\* entry is dropped so that the next invocation initializes again
ToolsCallAnswered_DropsSession(p) ==
    LET r == inv[p]
    IN  /\ r.pc = "tools_call"
        /\ \E ans \in ToolsCallAnswers(r.tool) :
              /\ inv' = [inv EXCEPT ![p] =
                            IF ans.raised
                            THEN Reply(r, 500, TransportFailure, NoBody)
                            ELSE Reply([r EXCEPT !.received = ans.result], 200, <<>>, ans.result)]
              /\ IF ans.raised \/ ans.result.kind = "error"
                 THEN /\ session_cache' =
                            [a \in Accounts |->
                                IF a = r.scope THEN NoSession ELSE session_cache[a]]
                      /\ global_session_id' =
                            IF r.scope = "global" THEN NoSession ELSE global_session_id
                 ELSE UNCHANGED <<session_cache, global_session_id>>
        /\ UNCHANGED <<others, deployment, now, credential_cache>>

\* mutant: a tools/call that raised (HTTP error, timeout) sent again
ToolsCallAnswered_RetriesOnFailure(p) ==
    LET r == inv[p]
    IN  /\ r.pc = "tools_call"
        /\ \E ans \in ToolsCallAnswers(r.tool) :
              inv' = [inv EXCEPT ![p] =
                         IF ans.raised /\ Len(r.calls) < 4
                         THEN [r EXCEPT !.calls = Append(@, LastCall(r))]
                         ELSE IF ans.raised
                         THEN Reply(r, 500, TransportFailure, NoBody)
                         ELSE Reply([r EXCEPT !.received = ans.result], 200, <<>>, ans.result)]
        /\ UNCHANGED <<others, deployment, now, credential_cache, session_cache,
                       global_session_id>>

\* handler.py 193 / 215, then 256 / 263 / 288 / 295 or 264-265 / 296-297:
\* the tools/call is answered and handler returns
ToolsCallAnswered(p) ==
    LET r == inv[p]
    IN  /\ r.pc = "tools_call"
        /\ \E ans \in ToolsCallAnswers(r.tool) :
              inv' = [inv EXCEPT ![p] =
                         IF ans.raised
                         THEN Reply(r, 500, TransportFailure, NoBody)
                         ELSE Reply([r EXCEPT !.received = ans.result], 200, <<>>, ans.result)]
        /\ UNCHANGED <<others, deployment, now, credential_cache, session_cache,
                       global_session_id>>

(***************************************************************************)
(* Actions of the credential broker of direct-proxy                        *)
(* (direct-proxy/agent/account_manager.py).                                *)
(***************************************************************************)
\* account_manager.py 23-25; the times in minutes
ROLE_NAME == "CentralOpsTargetRole"

SESSION_DURATION == 60

REFRESH_BUFFER == 5

\* account_manager.py 113-119.  STS gives timezone-aware expirations, which
\* line 117-118 leave as they are.
IsExpired(creds, t) == t + REFRESH_BUFFER >= creds.expiration

\* account_manager.py 75-78: the cached credentials get_credentials
\* returns without calling STS, NoCred when it has to call STS
AMCachedCredentials(cache, account_id, t) ==
    IF cache[account_id] # NoCred /\ ~IsExpired(cache[account_id], t)
    THEN cache[account_id]
    ELSE NoCred

\* account_manager.py 89-95
AccountCredentials(response, account_id) ==
    [ access_key_id     |-> response.AccessKeyId,
      secret_access_key |-> response.SecretAccessKey,
      session_token     |-> response.SessionToken,
      expiration        |-> response.Expiration,
      account_id        |-> account_id ]

\* account_manager.py 64-87: get_credentials runs up to its STS call, or
\* returns the cached credentials
AMGetCredentials(p) ==
    /\ deployment = "direct-proxy"
    /\ inv[p].pc = "idle"
    /\ \E account_id \in Accounts :
          LET r == [Idle EXCEPT !.shape = "account_manager",
                                !.account = account_id,
                                !.scope = account_id,
                                !.called = TRUE,
                                !.touched = {"credential_cache"},
                                !.pre_cc = credential_cache,
                                !.pre_sc = session_cache,
                                !.pre_gs = global_session_id]
              creds == AMCachedCredentials(credential_cache, account_id, now)
          IN  inv' = [inv EXCEPT ![p] =
                         IF creds # NoCred
                         THEN Reply([r EXCEPT !.creds = creds, !.at = now], 0, <<>>, NoBody)
                         ELSE [r EXCEPT !.pc = "assume_role",
                                        !.calls = Append(@, StsRequest(account_id))]]
    /\ UNCHANGED <<others, deployment, now, credential_cache, session_cache, global_session_id>>

\* account_manager.py 89-98: sts.assume_role answers
AMAssumeRoleSucceeds(p) ==
    LET r == inv[p]
        creds == AccountCredentials(AssumeRoleResponse(r.account, now), r.account)
    IN  /\ deployment = "direct-proxy"
        /\ r.pc = "assume_role"
        /\ credential_cache' = [credential_cache EXCEPT ![r.account] = creds]
        /\ inv' = [inv EXCEPT ![p] =
                      Reply([r EXCEPT !.creds = creds, !.at = now], 0, <<>>, NoBody)]
        /\ UNCHANGED <<others, deployment, now, session_cache, global_session_id>>

\* sts.assume_role raises, and get_credentials lets it through
AMAssumeRoleFails(p) ==
    /\ deployment = "direct-proxy"
    /\ inv[p].pc = "assume_role"
    /\ inv' = [inv EXCEPT ![p] = Raise(inv[p], AssumeRoleDenied)]
    /\ UNCHANGED <<others, deployment, now, credential_cache, session_cache, global_session_id>>

\* the caller has the return value; the slot is free for the next
\* invocation
Return(p) ==
    /\ inv[p].pc = "done"
    /\ inv' = [inv EXCEPT ![p] = Idle]
    /\ UNCHANGED <<others, deployment, now, credential_cache, session_cache, global_session_id>>

\* time passes between invocations
Tick ==
    /\ Quiet
    /\ \E d \in Deltas : now + d <= MaxTime /\ now' = now + d
    /\ UNCHANGED <<others, deployment, credential_cache, session_cache, global_session_id, inv>>

(***************************************************************************)
(* The MCP client of direct-proxy.  A call is two steps: the request is    *)
(* built and handed to a new proxy process, and the process ends.          *)
(***************************************************************************)
NoRequest == [method |-> "none", name |-> "", arguments |-> <<>>]

NoProcess ==
    [returncode |-> -1, stdout |-> <<>>, stderr |-> <<>>, response |-> <<>>]

\* an MCPClient(region=region) that is in no call
NewClient(region) ==
    [ pc       |-> "idle",
      region   |-> region,
      op       |-> "none",       \* call_tool or list_tools
      request  |-> NoRequest,
      runs     |-> <<>>,         \* the subprocess.run calls of this call
      proc     |-> NoProcess,    \* the ended process
      raised   |-> <<>>,         \* the exception that left the call
      returned |-> <<>> ]        \* the value the call returned

\* no client is part of the bridge's behaviours
ClientUnused == mcp_client = NewClient("us-east-1")

\* mcp_client.py 92-102: the argument vector and the standard input of the
\* proxy process
ProxyRun(c, request) ==
    [ argv  |-> <<"uvx", "mcp-proxy-for-aws@latest", "--metadata", c.region>>,
      input |-> request ]

\* mcp_client.py 98: the requests a proxy process, which is one session
\* with the server, reads from its standard input: json.dumps(request)
ProxySessionRequests(run) == <<run.input>>

\* dict.get(key, default) of an object
Get(obj, key, default) ==
    IF \E i \in 1..Len(obj) : obj[i][1] = key
    THEN obj[CHOOSE i \in 1..Len(obj) : obj[i][1] = key][2]
    ELSE default

\* A result is written as the words of its only member, the key first:
\* <<"tools", "tool1">> is {"tools": ["tool1"]}, <<>> is {}.
ResultGet(result, key, default) ==
    IF result # <<>> /\ result[1] = key THEN Tail(result) ELSE default

\* the JSON-RPC responses of the server to request 1
ResultResponse(result) ==
    << <<"jsonrpc", <<"2.0">>>>, <<"id", <<"1">>>>, <<"result", result>> >>

ErrorResponse ==
    << <<"jsonrpc", <<"2.0">>>>, <<"id", <<"1">>>>, <<"error", <<"Session", "not", "found">>>> >>

ProxyResponses ==
    { ResultResponse(<<"content", "text">>),
      ResultResponse(<<"tools", "tool1", "tool2">>),
      ResultResponse(<<"tools">>),
      ResultResponse(<<>>),
      ErrorResponse }

\* How a proxy process ends: exit code 0 with a response on its standard
\* output, exit code 0 with no output or with two responses, a non-zero
\* exit code with a message on its standard error.
ProxyExits ==
    { [returncode |-> 0, stdout |-> JsonDumps(resp), stderr |-> <<>>, response |-> resp] :
         resp \in ProxyResponses }
    \cup { [returncode |-> 0, stdout |-> <<>>, stderr |-> <<>>, response |-> <<>>],
           [returncode |-> 0,
            stdout |-> JsonDumps(ErrorResponse) \o JsonDumps(ErrorResponse),
            stderr |-> <<>>, response |-> <<>>] }
    \cup { [returncode |-> code, stdout |-> <<>>, stderr |-> <<"Connection", "error">>,
            response |-> <<>>] : code \in {1, 2} }

\* json.loads accepts the text of one object
IsJson(text) ==
    /\ Len(text) >= 2
    /\ text[1] = "{"
    /\ \A i \in 1..Len(text) : text[i] = "}" <=> i = Len(text)

ToolNames == {"aws___call_aws", "aws___list_regions", "aws___search_documentation"}

ToolArguments ==
    { <<>>,
      << <<"cli_command", <<"aws", "s3", "ls">>>> >>,
      << <<"search_phrase", <<"lambda">>>> >> }

\* mcp_client.py 32-60 and 92-102: call_tool builds the request and
\* _invoke_proxy starts the proxy on it
CallTool ==
    /\ deployment = "direct-proxy"
    /\ mcp_client.pc = "idle"
    /\ \E tool_name \in ToolNames, arguments \in ToolArguments :
          LET request == [method |-> "tools/call", name |-> tool_name,
                          arguments |-> arguments]
          IN  mcp_client' = [NewClient(mcp_client.region) EXCEPT
                            !.pc = "running",
                            !.op = "call_tool",
                            !.request = request,
                            !.runs = <<ProxyRun(mcp_client, request)>>]
    /\ UNCHANGED <<bridge, accounts, listed, agent, brokers>>

\* mcp_client.py 62-76 and 92-102
ListTools ==
    /\ deployment = "direct-proxy"
    /\ mcp_client.pc = "idle"
    /\ LET request == [method |-> "tools/list", name |-> "", arguments |-> <<>>]
       IN  mcp_client' = [NewClient(mcp_client.region) EXCEPT
                         !.pc = "running",
                         !.op = "list_tools",
                         !.request = request,
                         !.runs = <<ProxyRun(mcp_client, request)>>]
    /\ UNCHANGED <<bridge, accounts, listed, agent, brokers>>

\* mutant: a proxy that failed is started a second time
ProxyExited_RunsAgain ==
    /\ mcp_client.pc = "running"
    /\ \E proc \in ProxyExits :
          mcp_client' =
             IF proc.returncode # 0 /\ Len(mcp_client.runs) < 2
             THEN [mcp_client EXCEPT !.runs = Append(@, ProxyRun(mcp_client, mcp_client.request))]
             ELSE IF proc.returncode # 0
             THEN [mcp_client EXCEPT !.pc = "done", !.proc = proc,
                      !.raised = <<"RuntimeError", "MCP", "proxy", "error:">> \o proc.stderr]
             ELSE IF ~IsJson(proc.stdout)
             THEN [mcp_client EXCEPT !.pc = "done", !.proc = proc,
                      !.raised = <<"JSONDecodeError">>]
             ELSE LET result == JsonLoads(proc.stdout)
                  IN  [mcp_client EXCEPT !.pc = "done", !.proc = proc,
                          !.returned =
                             IF mcp_client.op = "list_tools"
                             THEN ResultGet(Get(result, "result", <<>>), "tools", <<>>)
                             ELSE result]
    /\ UNCHANGED <<bridge, accounts, listed, agent, brokers>>

\* mcp_client.py 104-107, and 77 for list_tools: the process has ended
ProxyExited ==
    /\ mcp_client.pc = "running"
    /\ \E proc \in ProxyExits :
          mcp_client' =
             IF proc.returncode # 0
             THEN [mcp_client EXCEPT !.pc = "done", !.proc = proc,
                      !.raised = <<"RuntimeError", "MCP", "proxy", "error:">> \o proc.stderr]
             ELSE IF ~IsJson(proc.stdout)
             THEN [mcp_client EXCEPT !.pc = "done", !.proc = proc,
                      !.raised = <<"JSONDecodeError">>]
             ELSE LET result == JsonLoads(proc.stdout)
                  IN  [mcp_client EXCEPT !.pc = "done", !.proc = proc,
                          !.returned =
                             IF mcp_client.op = "list_tools"
                             THEN ResultGet(Get(result, "result", <<>>), "tools", <<>>)
                             ELSE result]
    /\ UNCHANGED <<bridge, accounts, listed, agent, brokers>>

\* mcp_client.py 92-102: subprocess.run gives up after self.timeout seconds
\* and raises
ProxyTimedOut ==
    /\ mcp_client.pc = "running"
    /\ mcp_client' = [mcp_client EXCEPT !.pc = "done", !.raised = <<"TimeoutExpired">>]
    /\ UNCHANGED <<bridge, accounts, listed, agent, brokers>>

\* the caller has the value or the exception
ClientReturn ==
    /\ mcp_client.pc = "done"
    /\ mcp_client' = NewClient(mcp_client.region)
    /\ UNCHANGED <<bridge, accounts, listed, agent, brokers>>

(***************************************************************************)
(* The account registry of direct-proxy.                                   *)
(***************************************************************************)
\* list_accounts has not been called
NotCalled == [called |-> FALSE, value |-> <<>>]

\* _load_registry found neither a file nor ACCOUNT_REGISTRY
EmptyRegistry == [present |-> TRUE, value |-> <<>>]

\* no registry is part of the bridge's behaviours
RegistryUnused == accounts = EmptyRegistry /\ listed = NotCalled

\* Entries of a registry file: id and name, and optionally environment and
\* role.  The central account itself is listed with role "central".
RegistryEntries ==
    { [id |-> "111111111111", name |-> "Central", environment |-> "ops", role |-> "central"],
      [id |-> "111111111111", name |-> "Central", environment |-> Absent, role |-> "central"],
      [id |-> "222222222222", name |-> "Production", environment |-> "prod", role |-> "workload"],
      [id |-> "333333333333", name |-> "Dev", environment |-> Absent, role |-> "workload"],
      [id |-> "444444444444", name |-> "Sandbox", environment |-> "dev", role |-> Absent] }

\* how many entries a registry of the model holds at most
MaxRegistry == 3

\* self.accounts: a registry object with the list of its key "accounts",
\* or one without that key
Registries ==
    { [present |-> FALSE, value |-> <<>>] }
    \cup { [present |-> TRUE, value |-> l] :
             l \in UNION { [1..n -> RegistryEntries] : n \in 0..MaxRegistry } }

\* mutant: only entries marked as workload accounts are listed
list_accounts_WorkloadOnly(registry) ==
    LET entries == IF registry.present THEN registry.value ELSE <<>>
        kept == SelectSeq(entries, LAMBDA acc : acc.role = "workload")
    IN  [ j \in 1..Len(kept) |->
            [ id |-> kept[j].id,
              name |-> kept[j].name,
              environment |-> IF kept[j].environment = Absent
                              THEN "unknown" ELSE kept[j].environment ] ]

\* account_manager.py 52-62: the comprehension keeps the entries whose
\* role is not "central" (acc.get: an entry without role is kept) and builds
\* a new dict of three keys for each
list_accounts(registry) ==
    LET entries == IF registry.present THEN registry.value ELSE <<>>
        kept == SelectSeq(entries, LAMBDA acc : acc.role # "central")
    IN  [ j \in 1..Len(kept) |->
            [ id |-> kept[j].id,
              name |-> kept[j].name,
              environment |-> IF kept[j].environment = Absent
                              THEN "unknown" ELSE kept[j].environment ] ]

\* manager.list_accounts() is called and returns
ListAccounts ==
    /\ deployment = "direct-proxy"
    /\ listed = NotCalled
    /\ listed' = [called |-> TRUE, value |-> list_accounts(accounts)]
    /\ UNCHANGED <<bridge, accounts, mcp_client, agent, brokers>>

(***************************************************************************)
(* The agent of agentcore-gateway (agent/central_ops_agent.py).  A run is  *)
(* a sequence of steps separated by its blocking calls: the model's        *)
(* converse, the scan of the accounts table, the request to the Gateway.   *)
(***************************************************************************)
\* the loop bound of converse_with_tools
max_iterations == 10

\* how many tool_use responses the model gives before its final answer, in
\* the behaviours that do not answer tool_use forever
MaxToolRounds == 2

\* the input object of a toolUse block; Absent marks a key it does not hold
ToolInput(account_id, tool_name, arguments, region) ==
    [ account_id |-> account_id,
      tool_name  |-> tool_name,
      arguments  |-> arguments,
      region     |-> region ]

NoInput == ToolInput(Absent, Absent, NoArguments, Absent)

\* Inputs the model gives query_aws_resources: every key; the account only;
\* a documentation tool; no account; an empty tool name.
QueryToolInputs ==
    { ToolInput("222222222222", "aws___call_aws", Arguments("cli_command", "ls"), "us-west-2"),
      ToolInput("333333333333", Absent, NoArguments, Absent),
      ToolInput("222222222222", "aws___search_documentation",
                Arguments("search_phrase", "lambda"), Absent),
      ToolInput(Absent, "aws___list_regions", NoArguments, Absent),
      ToolInput("222222222222", Empty, NoArguments, Absent) }

\* content blocks of messages
TextBlock(text) ==
    [kind |-> "text", text |-> text, toolUseId |-> "", name |-> "", input |-> NoInput]

ToolUseBlock(toolUseId, name, input) ==
    [kind |-> "toolUse", text |-> <<>>, toolUseId |-> toolUseId, name |-> name,
     input |-> input]

\* mutant: every result filed under the identifier of the first tool use
ToolResultBlock_FirstId(toolUseId, result) ==
    [kind |-> "toolResult", text |-> result, toolUseId |-> "t1", name |-> "",
     input |-> NoInput]

ToolResultBlock(toolUseId, result) ==
    [kind |-> "toolResult", text |-> result, toolUseId |-> toolUseId, name |-> "",
     input |-> NoInput]

Message(role, content) == [role |-> role, content |-> content]

\* a response of bedrock_client.converse
ModelResponse(stopReason, content) ==
    [stopReason |-> stopReason, message |-> Message("assistant", content)]

NoResponse == [stopReason |-> "none", message |-> Message("none", <<>>)]

NoTool == [toolUseId |-> "", name |-> "", input |-> NoInput]

\* responses that ask for tools
ToolUseResponses ==
    { ModelResponse("tool_use", <<ToolUseBlock("t1", "list_accounts", NoInput)>>),
      ModelResponse("tool_use",
         << TextBlock(<<"checking">>),
            ToolUseBlock("t1", "query_aws_resources",
               ToolInput("222222222222", "aws___call_aws",
                         Arguments("cli_command", "ls"), "us-west-2")) >>),
      ModelResponse("tool_use",
         << ToolUseBlock("t1", "unknown_tool", NoInput),
            ToolUseBlock("t2", "query_aws_resources",
               ToolInput("333333333333", Absent, NoArguments, Absent)) >>),
      ModelResponse("tool_use",
         << ToolUseBlock("t1", "query_aws_resources",
               ToolInput(Absent, "aws___list_regions", NoArguments, Absent)) >>) }

\* final answers: one text, no text at all, two texts
FinalResponses ==
    { ModelResponse("end_turn", <<TextBlock(<<"answer">>)>>),
      ModelResponse("end_turn", <<>>),
      ModelResponse("end_turn", <<TextBlock(<<"first">>), TextBlock(<<"second">>)>>) }

\* responses a model may repeat forever
ForeverResponses ==
    { ModelResponse("tool_use", <<ToolUseBlock("t1", "unknown_tool", NoInput)>>),
      ModelResponse("tool_use",
         <<TextBlock(<<"again">>), ToolUseBlock("t1", "list_accounts", NoInput)>>) }

\* A behaviour of the model: the responses to its first calls, and the
\* response to every call after them.
Scripts ==
    { [head |-> h, rest |-> f] :
         h \in UNION { [1..n -> ToolUseResponses] : n \in 0..MaxToolRounds },
         f \in FinalResponses }
    \cup { [head |-> <<>>, rest |-> u] : u \in ForeverResponses }

NoScript == [head |-> <<>>, rest |-> NoResponse]

\* the response of the model to its n-th call
ScriptResponse(script, n) ==
    IF n <= Len(script.head) THEN script.head[n] ELSE script.rest

\* The events of response['stream'] of bedrock_client.converse_stream.  The
\* text of a block comes in chunks, here its words; the input of a toolUse
\* block comes as its JSON text in fragments, here two; a toolUse block
\* whose input is {} has no delta.
StreamEvent(kind, toolUseId, name, text, input, stopReason) ==
    [ kind |-> kind, toolUseId |-> toolUseId, name |-> name, text |-> text,
      input |-> input, stopReason |-> stopReason ]

\* a fragment of the JSON text of an input object
NoFragment == [of |-> NoInput, part |-> 0, parts |-> 0]

InputFragments(input) ==
    IF input = NoInput THEN <<>>
    ELSE << [of |-> input, part |-> 1, parts |-> 2],
            [of |-> input, part |-> 2, parts |-> 2] >>

BlockEvents(block) ==
    IF block.kind = "text"
    THEN [i \in 1..Len(block.text) |->
             StreamEvent("contentBlockDelta.text", "", "", <<block.text[i]>>, NoFragment, "")]
         \o <<StreamEvent("contentBlockStop", "", "", <<>>, NoFragment, "")>>
    ELSE <<StreamEvent("contentBlockStart.toolUse", block.toolUseId, block.name, <<>>,
                       NoFragment, "")>>
         \o [i \in 1..Len(InputFragments(block.input)) |->
                StreamEvent("contentBlockDelta.toolUse", "", "", <<>>,
                            InputFragments(block.input)[i], "")]
         \o <<StreamEvent("contentBlockStop", "", "", <<>>, NoFragment, "")>>

RECURSIVE BlocksEvents(_)
BlocksEvents(content) ==
    IF content = <<>> THEN <<>>
    ELSE BlockEvents(Head(content)) \o BlocksEvents(Tail(content))

\* the stream of a response
StreamOf(response) ==
    BlocksEvents(response.message.content)
    \o <<StreamEvent("messageStop", "", "", <<>>, NoFragment, response.stopReason)>>

\* central_ops_agent.py 283-285: json.loads of the collected text, {} for
\* no text and for text that is not JSON, as a part of a document is
ParseToolInput(tool_use_input_json) ==
    IF /\ tool_use_input_json # <<>>
       /\ Len(tool_use_input_json) = tool_use_input_json[1].parts
       /\ \A i \in 1..Len(tool_use_input_json) :
              /\ tool_use_input_json[i].part = i
              /\ tool_use_input_json[i].of = tool_use_input_json[1].of
    THEN tool_use_input_json[1].of
    ELSE NoInput

\* an event converse_with_tools_streaming yields
Yield(type, name, content, input) ==
    [type |-> type, name |-> name, content |-> content, input |-> input]

\* central_ops_agent.py 252-256: the variables of one pass over a stream
StreamStart ==
    [ assistant_content   |-> <<>>,
      current_text        |-> <<>>,
      current_tool_use    |-> NoTool,
      tool_use_input_json |-> <<>>,
      stop_reason         |-> "none",
      yielded             |-> <<>> ]

\* central_ops_agent.py 259-291: one event of the stream
StreamStep(c, event) ==
    IF event.kind = "contentBlockStart.toolUse"
    THEN [c EXCEPT !.current_tool_use =
                      [toolUseId |-> event.toolUseId, name |-> event.name, input |-> NoInput],
                   !.tool_use_input_json = <<>>]
    ELSE IF event.kind = "contentBlockDelta.text"
    THEN [c EXCEPT !.current_text = @ \o event.text,
                   !.yielded = Append(@, Yield("text", "", event.text, NoInput))]
    ELSE IF event.kind = "contentBlockDelta.toolUse"
    THEN [c EXCEPT !.tool_use_input_json = Append(@, event.input)]
    ELSE IF event.kind = "contentBlockStop"
    THEN LET c1 == IF c.current_text # <<>>
                   THEN [c EXCEPT !.assistant_content = Append(@, TextBlock(c.current_text)),
                                  !.current_text = <<>>]
                   ELSE c
         IN  IF c1.current_tool_use # NoTool
             THEN [c1 EXCEPT !.assistant_content =
                                Append(@, ToolUseBlock(c1.current_tool_use.toolUseId,
                                                       c1.current_tool_use.name,
                                                       ParseToolInput(c1.tool_use_input_json))),
                             !.current_tool_use = NoTool,
                             !.tool_use_input_json = <<>>]
             ELSE c1
    ELSE IF event.kind = "messageStop"
    THEN [c EXCEPT !.stop_reason = event.stopReason]
    ELSE c

RECURSIVE StreamPass(_, _)
StreamPass(c, stream) ==
    IF stream = <<>> THEN c ELSE StreamPass(StreamStep(c, Head(stream)), Tail(stream))

\* central_ops_agent.py 252-295: the stream collected, with the text that
\* no contentBlockStop closed
CollectStream(stream) ==
    LET c == StreamPass(StreamStart, stream)
    IN  IF c.current_text # <<>>
        THEN [c EXCEPT !.assistant_content = Append(@, TextBlock(c.current_text))]
        ELSE c

\* An agent process with its configuration (GATEWAY_URL, ACCOUNTS_TABLE_NAME)
\* that is in no call.
NewAgent(gateway_url, table) ==
    [ pc            |-> "idle",
      GATEWAY_URL   |-> gateway_url,
      ACCOUNTS_TABLE_NAME |-> table,
      entry         |-> "none",      \* the function that was called
      script        |-> NoScript,    \* how the model behaves in this run
      messages      |-> <<>>,
      response      |-> NoResponse,
      iteration     |-> 0,
      block         |-> 0,           \* position of the toolUse block in work
      tool          |-> NoTool,      \* the process_tool_call in work
      tool_results  |-> <<>>,
      tool_calls    |-> <<>>,        \* calls of process_tool_call of this round
      mcp_requests  |-> <<>>,        \* requests call_gateway_mcp built
      http_requests |-> 0,           \* urlopen calls
      delivered     |-> FALSE,       \* the Gateway has invoked the bridge
      registry_reads |-> 0,          \* calls of get_accounts by process_tool_call
      model_calls   |-> 0,
      handled       |-> 0,           \* tool_use responses worked off
      events        |-> <<>>,        \* what converse_with_tools_streaming yielded
      raised        |-> <<>>,
      returned      |-> <<>> ]

\* no agent is part of the bridge's behaviours
AgentUnused == agent = NewAgent("", "")

\* urllib.request.Request accepts a URL with a scheme only
HasScheme(url) == url # ""

\* mutant: the request names the agent's own tool
McpToolsCall_AgentToolName(mcp_tool_name, account_id, arguments, region) ==
    [ method |-> "tools/call",
      name   |-> <<"bridge-lambda", "query_aws_resources">>,
      arguments |-> [ account_id |-> account_id,
                      tool_name  |-> mcp_tool_name,
                      arguments  |-> IF arguments = <<>> THEN <<>> ELSE arguments,
                      region     |-> region ] ]

\* central_ops_agent.py 111-123: the JSON-RPC request; the tool name
\* bridge-lambda___query is written as its parts
McpToolsCall(mcp_tool_name, account_id, arguments, region) ==
    [ method |-> "tools/call",
      name   |-> <<"bridge-lambda", "query">>,
      arguments |-> [ account_id |-> account_id,
                      tool_name  |-> mcp_tool_name,
                      arguments  |-> IF arguments = <<>> THEN <<>> ELSE arguments,
                      region     |-> region ] ]

\* The event the Gateway hands the bridge for a request: the arguments of
\* the request, and the request's tool name in the context.
BridgeEvent(request) ==
    [ ctx       |-> request.name,
      body      |-> "n/a",
      action    |-> "n/a",
      tool      |-> request.arguments.tool_name,
      account   |-> request.arguments.account_id,
      region    |-> request.arguments.region,
      arguments |-> [present |-> TRUE, value |-> request.arguments.arguments] ]

\* json.dumps of the results of list_accounts
NoAccountsConfigured ==
    JsonDumps(<< <<"message", <<"No", "accounts", "configured.">>>>, <<"accounts", <<>>>> >>)

AccountsObject(account_ids) == JsonDumps(<< <<"accounts", account_ids>> >>)

\* mutant: the last text block is the answer
FinalText_LastText(response) ==
    LET texts == SelectSeq(response.message.content, LAMBDA b : b.kind = "text")
    IN  IF texts # <<>> THEN texts[Len(texts)].text
        ELSE <<"I", "couldn't", "generate", "a", "response.">>

\* converse_with_tools 402-407
FinalText(response) ==
    LET texts == SelectSeq(response.message.content, LAMBDA b : b.kind = "text")
    IN  IF texts # <<>> THEN texts[1].text
        ELSE <<"I", "couldn't", "generate", "a", "response.">>

\* central_ops_agent.py 334: the generator yields 'done' and finishes
StreamingDone(a) ==
    [a EXCEPT !.pc = "done", !.events = Append(@, Yield("done", "", <<>>, NoInput))]

\* An exception leaves the running function; inside the loop of
\* converse_with_tools_streaming, where iteration is 1 at least, the try of
\* 242-332 takes it (330-332).
AgentRaises(a, exception) ==
    IF a.entry = "converse_with_tools_streaming" /\ a.iteration > 0
    THEN StreamingDone([a EXCEPT !.events =
                           Append(@, Yield("error", "", <<"Error:">> \o exception, NoInput))])
    ELSE [a EXCEPT !.pc = "done", !.raised = exception]

\* bedrock_client.converse is called with the messages
CallModel(a) == [a EXCEPT !.pc = "converse", !.model_calls = @ + 1]

\* mutant: the limit compared with <=
StreamingLoop_OneMore(a) ==
    IF a.iteration <= max_iterations
    THEN [a EXCEPT !.pc = "converse_stream", !.iteration = @ + 1, !.model_calls = @ + 1]
    ELSE StreamingDone(a)

\* central_ops_agent.py 239-249: the loop of converse_with_tools_streaming
\* at its head
StreamingLoop(a) ==
    IF a.iteration < max_iterations
    THEN [a EXCEPT !.pc = "converse_stream", !.iteration = @ + 1, !.model_calls = @ + 1]
    ELSE StreamingDone(a)

\* central_ops_agent.py 89-135: call_gateway_mcp up to its urlopen
CallGatewayMcp(a, mcp_tool_name, account_id, arguments, region) ==
    LET a1 == [a EXCEPT !.mcp_requests =
                  Append(@, McpToolsCall(mcp_tool_name, account_id, arguments, region))]
    IN  IF HasScheme(a.GATEWAY_URL)
        THEN [a1 EXCEPT !.pc = "gateway", !.http_requests = @ + 1, !.delivered = FALSE]
        ELSE AgentRaises(a1, <<"ValueError", "unknown", "url", "type:", a.GATEWAY_URL>>)

RECURSIVE ProcessToolCall(_, _), ToolReturned(_, _), RunBlocks(_, _)

\* central_ops_agent.py 147-183 up to the first blocking call
ProcessToolCall(a, tool_use) ==
    LET a1 == [a EXCEPT !.tool = tool_use, !.tool_calls = Append(@, tool_use)]
    IN  IF tool_use.name = "list_accounts"
        THEN IF a.ACCOUNTS_TABLE_NAME = ""
             THEN ToolReturned([a1 EXCEPT !.registry_reads = @ + 1], NoAccountsConfigured)
             ELSE [a1 EXCEPT !.pc = "scan", !.registry_reads = @ + 1]
        ELSE IF tool_use.name = "query_aws_resources"
        THEN IF tool_use.input.account_id = Absent
             THEN AgentRaises(a1, <<"KeyError", "account_id">>)
             ELSE CallGatewayMcp(a1,
                     IF tool_use.input.tool_name = Absent
                     THEN "aws___call_aws" ELSE tool_use.input.tool_name,
                     tool_use.input.account_id,
                     IF tool_use.input.arguments.present
                     THEN tool_use.input.arguments.value ELSE <<>>,
                     IF tool_use.input.region = Absent
                     THEN "us-east-1" ELSE tool_use.input.region)
        ELSE ToolReturned(a1, JsonDumps(ErrorObject(UnknownToolMsg(<<tool_use.name>>))))

\* process_tool_call returns result: to its caller, or into the loop of
\* converse_with_tools 383-400 or of converse_with_tools_streaming 315-322
ToolReturned(a, result) ==
    IF a.entry = "process_tool_call"
    THEN [a EXCEPT !.pc = "done", !.returned = result]
    ELSE IF a.entry = "converse_with_tools_streaming"
    THEN RunBlocks([a EXCEPT !.events =
                       Append(@, Yield("tool_result", a.tool.name, result, NoInput)),
                             !.tool_results =
                       Append(@, ToolResultBlock(a.tool.toolUseId, result))],
                   a.block + 1)
    ELSE RunBlocks([a EXCEPT !.tool_results =
                       Append(@, ToolResultBlock(a.tool.toolUseId, result))],
                   a.block + 1)

\* converse_with_tools 378-400 and converse_with_tools_streaming 304-324:
\* the blocks of the assistant message from position i on, then the user
\* message of the results and the next converse
RunBlocks(a, i) ==
    LET content == a.response.message.content
        a1 == [a EXCEPT !.messages = Append(@, Message("user", a.tool_results)),
                        !.handled = @ + 1,
                        !.block = 0,
                        !.tool = NoTool]
    IN  IF i > Len(content)
        THEN IF a.entry = "converse_with_tools_streaming"
             THEN StreamingLoop(a1)
             ELSE CallModel(a1)
        ELSE IF content[i].kind = "toolUse"
        THEN ProcessToolCall(
                [a EXCEPT !.block = i,
                          !.events = IF a.entry = "converse_with_tools_streaming"
                                     THEN Append(@, Yield("tool_call", content[i].name, <<>>,
                                                          content[i].input))
                                     ELSE @],
                [ toolUseId |-> content[i].toolUseId,
                  name |-> content[i].name,
                  input |-> content[i].input ])
        ELSE RunBlocks(a, i + 1)

bridge_and_direct_proxy == <<deployment, now, credential_cache, session_cache,
                             global_session_id, accounts, listed, mcp_client, brokers>>

\* process_tool_call(tool_name, tool_input, workload_token) is called
ProcessToolCallInvoked ==
    /\ agent.pc = "idle"
    /\ \E name \in {"list_accounts", "query_aws_resources", "unknown_tool"},
          input \in QueryToolInputs \cup {NoInput} :
          agent' = ProcessToolCall(
                      [NewAgent(agent.GATEWAY_URL, agent.ACCOUNTS_TABLE_NAME)
                          EXCEPT !.entry = "process_tool_call"],
                      [toolUseId |-> "", name |-> name, input |-> input])
    /\ UNCHANGED <<bridge_and_direct_proxy, inv>>

\* central_ops_agent.py 338-366: converse_with_tools(prompt, ...) up to its
\* first blocking call, the scan of get_system_prompt or the first converse
ConverseWithTools ==
    /\ agent.pc = "idle"
    /\ \E script \in Scripts :
          LET a == [NewAgent(agent.GATEWAY_URL, agent.ACCOUNTS_TABLE_NAME) EXCEPT
                       !.entry = "converse_with_tools",
                       !.script = script,
                       !.messages = <<Message("user", <<TextBlock(<<"prompt">>)>>)>>]
          IN  agent' = IF agent.ACCOUNTS_TABLE_NAME = ""
                       THEN CallModel(a)
                       ELSE [a EXCEPT !.pc = "scan"]
    /\ UNCHANGED <<bridge_and_direct_proxy, inv>>

\* central_ops_agent.py 372-407: converse has returned a response
ModelAnswered ==
    /\ agent.pc = "converse"
    /\ LET response == ScriptResponse(agent.script, agent.model_calls)
           a == [agent EXCEPT !.response = response]
       IN  agent' =
              IF response.stopReason = "tool_use" /\ agent.iteration < max_iterations
              THEN RunBlocks([a EXCEPT !.iteration = @ + 1,
                                       !.messages = Append(@, response.message),
                                       !.tool_results = <<>>,
                                       !.tool_calls = <<>>],
                             1)
              ELSE [a EXCEPT !.pc = "done", !.returned = FinalText(response)]
    /\ UNCHANGED <<bridge_and_direct_proxy, inv>>

\* bedrock_client.converse raises (throttling, validation, access)
ModelRaised ==
    /\ agent.pc = "converse"
    /\ agent' = AgentRaises(agent, <<"ClientError", "Converse">>)
    /\ UNCHANGED <<bridge_and_direct_proxy, inv>>

\* central_ops_agent.py 213-249: converse_with_tools_streaming(prompt, ...)
\* up to its first blocking call, the scan of get_system_prompt or the
\* first converse_stream
ConverseWithToolsStreaming ==
    /\ agent.pc = "idle"
    /\ \E script \in Scripts :
          LET a == [NewAgent(agent.GATEWAY_URL, agent.ACCOUNTS_TABLE_NAME) EXCEPT
                       !.entry = "converse_with_tools_streaming",
                       !.script = script,
                       !.messages = <<Message("user", <<TextBlock(<<"prompt">>)>>)>>]
          IN  agent' = IF agent.ACCOUNTS_TABLE_NAME = ""
                       THEN StreamingLoop(a)
                       ELSE [a EXCEPT !.pc = "scan"]
    /\ UNCHANGED <<bridge_and_direct_proxy, inv>>

\* central_ops_agent.py 251-328: converse_stream has returned and its
\* stream is read to the end
StreamAnswered ==
    /\ agent.pc = "converse_stream"
    /\ LET c == CollectStream(StreamOf(ScriptResponse(agent.script, agent.model_calls)))
           a == [agent EXCEPT
                    !.response = ModelResponse(c.stop_reason, c.assistant_content),
                    !.events = @ \o c.yielded,
                    !.messages = IF c.assistant_content # <<>>
                                 THEN Append(@, Message("assistant", c.assistant_content))
                                 ELSE @]
       IN  agent' =
              IF c.stop_reason = "tool_use"
              THEN RunBlocks([a EXCEPT !.tool_results = <<>>, !.tool_calls = <<>>], 1)
              ELSE StreamingDone(a)
    /\ UNCHANGED <<bridge_and_direct_proxy, inv>>

\* bedrock_client.converse_stream raises
StreamRaised ==
    /\ agent.pc = "converse_stream"
    /\ agent' = AgentRaises(agent, <<"ClientError", "ConverseStream">>)
    /\ UNCHANGED <<bridge_and_direct_proxy, inv>>

\* the items of the accounts table that are enabled
ScanItems == { <<>>, <<"222222222222", "333333333333">> }

\* central_ops_agent.py 28-39 and 162-169: dynamodb.scan has answered
ScanAnswered ==
    /\ agent.pc = "scan"
    /\ \E items \in ScanItems :
          agent' = IF agent.tool = NoTool /\ agent.entry = "converse_with_tools_streaming"
                   THEN StreamingLoop(agent)
                   ELSE IF agent.tool = NoTool
                   THEN CallModel(agent)
                   ELSE ToolReturned(agent,
                           IF items = <<>> THEN NoAccountsConfigured
                           ELSE AccountsObject(items))
    /\ UNCHANGED <<bridge_and_direct_proxy, inv>>

\* dynamodb.scan raises
ScanRaised ==
    /\ agent.pc = "scan"
    /\ agent' = AgentRaises(agent, <<"ClientError", "Scan">>)
    /\ UNCHANGED <<bridge_and_direct_proxy, inv>>

\* the Gateway invokes the bridge Lambda for the request it was sent
GatewayInvokesBridge ==
    /\ agent.pc = "gateway"
    /\ ~agent.delivered
    /\ agent' = [agent EXCEPT !.delivered = TRUE]
    /\ inv' = [inv EXCEPT ![1] =
                  Handler(BridgeEvent(agent.mcp_requests[Len(agent.mcp_requests)]))]
    /\ UNCHANGED bridge_and_direct_proxy

\* What urlopen and json.loads make of the Gateway's answer: the parsed
\* response, or the error object of the except clauses 139-144.
GatewayResults ==
    { ResultResponse(<<"content", "text">>),
      ErrorResponse,
      ErrorObject(<<"Gateway", "error", "401:", "Unauthorized">>),
      ErrorObject(<<"Gateway", "call", "failed:", "timed", "out">>),
      ErrorObject(<<"Gateway", "call", "failed:", "Expecting", "value">>) }

\* central_ops_agent.py 137-144 and 180: call_gateway_mcp returns and
\* process_tool_call serializes its result
GatewayAnswered ==
    /\ agent.pc = "gateway"
    /\ \E result \in GatewayResults :
          agent' = ToolReturned(agent, JsonDumps(result))
    /\ inv' = [inv EXCEPT ![1] = Idle]
    /\ UNCHANGED bridge_and_direct_proxy

\* the caller has the value or the exception
AgentReturn ==
    /\ agent.pc = "done"
    /\ agent' = NewAgent(agent.GATEWAY_URL, agent.ACCOUNTS_TABLE_NAME)
    /\ UNCHANGED <<bridge_and_direct_proxy, inv>>

(***************************************************************************)
(* The two credential brokers side by side: get_credentials of handler.py  *)
(* and AccountManager.get_credentials, each with its own cache, called     *)
(* for the same account at the same time and given the same answer of STS  *)
(* to the request each of them makes.                                      *)
(***************************************************************************)
\* sts.assume_role(RoleArn=arn:aws:iam::<account_id>:role/<role>,
\* DurationSeconds=duration); the role session name is left out
AssumeRoleRequest(account_id, role, duration) ==
    [account_id |-> account_id, role |-> role, DurationSeconds |-> duration]

NoAssumeRole == AssumeRoleRequest(Absent, "none", 0)

\* handler.py 55-60
HandlerAssumeRole(account_id) ==
    AssumeRoleRequest(account_id, TARGET_ROLE_NAME, SessionDuration)

\* account_manager.py 81-87
ManagerAssumeRole(account_id) ==
    AssumeRoleRequest(account_id, ROLE_NAME, SESSION_DURATION)

\* the answer of STS at time t to a request: credentials of the role the
\* request names that expire when the requested duration is over
StsAnswer(request, t) ==
    LET token == [role_account |-> request.account_id, role |-> request.role, issued |-> t]
    IN  [ AccessKeyId     |-> token,
          SecretAccessKey |-> token,
          SessionToken    |-> token,
          Expiration      |-> t + request.DurationSeconds ]

\* a broker that is in no call
BrokerIdle == [pc |-> "idle", request |-> NoAssumeRole, returned |-> NoCred, raised |-> FALSE]

NewBrokers ==
    [ account       |-> Absent,
      at            |-> -1,
      handler       |-> BrokerIdle,
      manager       |-> BrokerIdle,
      pre_handler   |-> [a \in Accounts |-> NoCred],
      pre_manager   |-> [a \in Accounts |-> NoCred],
      handler_cache |-> [a \in Accounts |-> NoCred],
      manager_cache |-> [a \in Accounts |-> NoCred] ]

\* no pair of brokers is part of the other behaviours
BrokersUnused == brokers = NewBrokers

\* mutant: credentials on the boundary now + 5 minutes = expiration taken
\* as still good
ManagerCalled_ExpiredAfterBoundary(cached, request, t) ==
    IF cached # NoCred /\ ~(t + REFRESH_BUFFER > cached.expiration)
    THEN [pc |-> "done", request |-> NoAssumeRole, returned |-> cached, raised |-> FALSE]
    ELSE [pc |-> "assume_role", request |-> request, returned |-> NoCred, raised |-> FALSE]

\* account_manager.py 75-87: AccountManager.get_credentials up to its
\* return of the cached credentials or its call of STS
ManagerCalled(cached, request, t) ==
    IF cached # NoCred /\ ~IsExpired(cached, t)
    THEN [pc |-> "done", request |-> NoAssumeRole, returned |-> cached, raised |-> FALSE]
    ELSE [pc |-> "assume_role", request |-> request, returned |-> NoCred, raised |-> FALSE]

\* handler.py 48-60: get_credentials up to its return of the cached
\* credentials or its call of STS
HandlerCalled(cached, request, t) ==
    IF cached # NoCred /\ CredentialsUsable(cached, t)
    THEN [pc |-> "done", request |-> NoAssumeRole, returned |-> cached, raised |-> FALSE]
    ELSE [pc |-> "assume_role", request |-> request, returned |-> NoCred, raised |-> FALSE]

\* both brokers are called for an account
BrokersGetCredentials ==
    /\ brokers.handler.pc = "idle"
    /\ brokers.manager.pc = "idle"
    /\ \E account_id \in Accounts :
          brokers' = [brokers EXCEPT
                         !.account = account_id,
                         !.at = now,
                         !.pre_handler = brokers.handler_cache,
                         !.pre_manager = brokers.manager_cache,
                         !.handler = HandlerCalled(brokers.handler_cache[account_id],
                                                   HandlerAssumeRole(account_id), now),
                         !.manager = ManagerCalled(brokers.manager_cache[account_id],
                                                   ManagerAssumeRole(account_id), now)]
    /\ UNCHANGED <<bridge, accounts, listed, mcp_client, agent>>

\* handler.py 62-69 and account_manager.py 89-98: STS answers the brokers
\* that wait for it
BrokersAssumeRoleSucceeds ==
    LET b == brokers
        h == CredsOfResponse(StsAnswer(b.handler.request, now))
        m == AccountCredentials(StsAnswer(b.manager.request, now), b.account)
    IN  /\ "assume_role" \in {b.handler.pc, b.manager.pc}
        /\ brokers' = [b EXCEPT
                          !.handler = IF b.handler.pc = "assume_role"
                                      THEN [@ EXCEPT !.pc = "done", !.returned = h] ELSE @,
                          !.handler_cache = IF b.handler.pc = "assume_role"
                                            THEN [@ EXCEPT ![b.account] = h] ELSE @,
                          !.manager = IF b.manager.pc = "assume_role"
                                      THEN [@ EXCEPT !.pc = "done", !.returned = m] ELSE @,
                          !.manager_cache = IF b.manager.pc = "assume_role"
                                            THEN [@ EXCEPT ![b.account] = m] ELSE @]
        /\ UNCHANGED <<bridge, accounts, listed, mcp_client, agent>>

\* sts.assume_role raises in the brokers that wait for it; neither
\* get_credentials has a handler
BrokersAssumeRoleFails ==
    /\ "assume_role" \in {brokers.handler.pc, brokers.manager.pc}
    /\ brokers' = [brokers EXCEPT
                      !.handler = IF @.pc = "assume_role"
                                  THEN [@ EXCEPT !.pc = "done", !.raised = TRUE] ELSE @,
                      !.manager = IF @.pc = "assume_role"
                                  THEN [@ EXCEPT !.pc = "done", !.raised = TRUE] ELSE @]
    /\ UNCHANGED <<bridge, accounts, listed, mcp_client, agent>>

\* the callers have what the brokers returned
BrokersReturn ==
    /\ brokers.handler.pc = "done"
    /\ brokers.manager.pc = "done"
    /\ brokers' = [brokers EXCEPT !.handler = BrokerIdle, !.manager = BrokerIdle]
    /\ UNCHANGED <<bridge, accounts, listed, mcp_client, agent>>

\* time passes between the calls
BrokersTick ==
    /\ brokers.handler.pc = "idle"
    /\ brokers.manager.pc = "idle"
    /\ \E d \in Deltas : now + d <= MaxTime /\ now' = now + d
    /\ UNCHANGED <<others, deployment, credential_cache, session_cache, global_session_id, inv>>

Init ==
    /\ deployment \in {"agentcore-gateway", "direct-proxy"}
    /\ RegistryUnused
    /\ ClientUnused
    /\ AgentUnused
    /\ BrokersUnused
    /\ now = 0
    /\ credential_cache = [a \in Accounts |-> NoCred]
    /\ session_cache = [a \in Accounts |-> NoSession]
    /\ global_session_id = NoSession
    /\ inv = [q \in Slots |-> Idle]

Next ==
    \/ Tick
    \/ \E p \in LambdaSlots :
          \/ Quiet /\ Invoke(p)
          \/ AssumeRoleSucceeds(p)
          \/ AssumeRoleFails(p)
          \/ InitializeAnswered(p)
          \/ GlobalInitializeAnswered(p)
          \/ ToolsCallAnswered(p)
          \/ Quiet /\ AMGetCredentials(p)
          \/ AMAssumeRoleSucceeds(p)
          \/ AMAssumeRoleFails(p)
          \/ Return(p)

Spec == Init /\ [][Next]_vars

(***************************************************************************)
(* Two invocations that share the caches of one context and interleave at  *)
(* their outbound calls, as the threads of a long-lived server would.      *)
(***************************************************************************)
\* the credentials a context holds 55 minutes after it obtained them: on
\* the boundary now + 5 minutes = expiration, where they are refreshed
ExpiringCredentials(d, account_id) ==
    IF d = "agentcore-gateway"
    THEN CredsOfResponse(AssumeRoleResponse(account_id, 0))
    ELSE AccountCredentials(AssumeRoleResponse(account_id, 0), account_id)

\* a fresh context, or one whose cached credentials are about to expire
InitConcurrent ==
    /\ deployment \in {"agentcore-gateway", "direct-proxy"}
    /\ RegistryUnused
    /\ ClientUnused
    /\ AgentUnused
    /\ BrokersUnused
    /\ \/ /\ now = 0
          /\ credential_cache = [a \in Accounts |-> NoCred]
       \/ /\ now = SessionDuration - RefreshBuffer
          /\ credential_cache = [a \in Accounts |-> ExpiringCredentials(deployment, a)]
    /\ session_cache = [a \in Accounts |-> NoSession]
    /\ global_session_id = NoSession
    /\ inv = [q \in Slots |-> Idle]

\* the clock stands still: the interleavings of invocations that start
\* from the same caches are what this specification is about
NextConcurrent ==
    \E p \in Slots :
          \/ ConcurrentInvoke(p)
          \/ AssumeRoleSucceeds(p)
          \/ AssumeRoleFails(p)
          \/ InitializeAnswered(p)
          \/ ToolsCallAnswered(p)
          \/ AMGetCredentials(p)
          \/ AMAssumeRoleSucceeds(p)
          \/ AMAssumeRoleFails(p)
          \/ Return(p)

SpecConcurrent == InitConcurrent /\ [][NextConcurrent]_vars

(***************************************************************************)
(* SpecLive: an invocation of the bridge beside another one that shares    *)
(* the caches of the context.  Every outbound call of the first ends:      *)
(* urlopen has a timeout (handler.py 105) and botocore has its own, so the *)
(* step that takes the answer, an exception included, is taken at last.    *)
(* Nothing is assumed of the other invocation, which may stay in a call    *)
(* for ever.                                                               *)
(***************************************************************************)
\* an account operation, a global operation, and a direct body that is
\* JSON but no object
LiveEvents ==
    { Event(<<"bridge-lambda", "query">>, "n/a", "n/a",
             <<"aws___list_regions", "222222222222", Absent, NoArguments>>),
      Event(<<"bridge-lambda", "query">>, "n/a", "n/a",
             <<"aws___search_documentation", Absent, Absent, NoArguments>>),
      Event(NoContext, "non_object", "n/a", <<Absent, Absent, Absent, NoArguments>>) }

LiveInvoke(p) == HandlerInvoked(p, LiveEvents)

\* the outbound call of invocation p ends, in an answer or an exception
CallEnds(p) ==
    \/ AssumeRoleSucceeds(p)
    \/ AssumeRoleFails(p)
    \/ InitializeAnswered(p)
    \/ GlobalInitializeAnswered(p)
    \/ ToolsCallAnswered(p)

InitLive ==
    /\ deployment = "agentcore-gateway"
    /\ RegistryUnused
    /\ ClientUnused
    /\ AgentUnused
    /\ BrokersUnused
    /\ now = 0
    /\ credential_cache = [a \in Accounts |-> NoCred]
    /\ session_cache = [a \in Accounts |-> NoSession]
    /\ global_session_id = NoSession
    /\ inv = [q \in Slots |-> Idle]

NextLive ==
    \E p \in Slots :
          \/ LiveInvoke(p)
          \/ CallEnds(p)
          \/ Return(p)

SpecLive == InitLive /\ [][NextLive]_vars /\ WF_vars(CallEnds(1))

(***************************************************************************)
(* SpecShapes: one query handled in both shapes from the same caches.  The *)
(* Gateway invocation runs first; the caches are then put back to what it  *)
(* found, the record of the Gateway invocation keeping the caches it left, *)
(* and the direct invocation of the same query runs.  The clock stands     *)
(* still, so STS answers both alike; the MCP server answers each call as   *)
(* it chooses.                                                             *)
(***************************************************************************)
\* handler.py 243-247: the event itself holds the query
GatewayQueries ==
    { Event(<<"bridge-lambda", "query">>, "n/a", "n/a", q) : q \in QueryInputs }

\* handler.py 270-280: the same query as the JSON body of a direct event
DirectQuery(ev) ==
    Event(NoContext, "object", "query",
          <<ev.tool, ev.account, ev.region, ev.arguments>>)

ShapesGateway ==
    /\ Quiet
    /\ HandlerInvoked(1, GatewayQueries)

\* the caches as the Gateway invocation found them
ShapesRewind ==
    LET r == inv[1]
    IN  /\ r.pc = "done"
        /\ inv[2].pc = "idle"
        /\ credential_cache' = r.pre_cc
        /\ session_cache' = r.pre_sc
        /\ global_session_id' = r.pre_gs
        /\ inv' = [inv EXCEPT ![1] = [r EXCEPT !.pc = "rewound",
                                                !.pre_cc = credential_cache,
                                                !.pre_sc = session_cache,
                                                !.pre_gs = global_session_id]]
        /\ UNCHANGED <<others, deployment, now>>

ShapesDirect ==
    /\ inv[1].pc = "rewound"
    /\ HandlerInvoked(2, {DirectQuery(inv[1].ev)})

\* both have returned; the context stays warm for the next query
ShapesReturn ==
    /\ inv[1].pc = "rewound"
    /\ inv[2].pc = "done"
    /\ inv' = [q \in Slots |-> Idle]
    /\ UNCHANGED <<others, deployment, now, credential_cache, session_cache,
                   global_session_id>>

InitShapes ==
    /\ deployment = "agentcore-gateway"
    /\ RegistryUnused
    /\ ClientUnused
    /\ AgentUnused
    /\ BrokersUnused
    /\ now = 0
    /\ credential_cache = [a \in Accounts |-> NoCred]
    /\ session_cache = [a \in Accounts |-> NoSession]
    /\ global_session_id = NoSession
    /\ inv = [q \in Slots |-> Idle]

NextShapes ==
    \/ ShapesGateway
    \/ ShapesRewind
    \/ ShapesDirect
    \/ ShapesReturn
    \/ \E p \in Slots : CallEnds(p)

SpecShapes == InitShapes /\ [][NextShapes]_vars

(***************************************************************************)
(* SpecBrokers: the two brokers start with empty caches and are called     *)
(* together as time passes.                                                *)
(***************************************************************************)
InitBrokers ==
    /\ deployment = "agentcore-gateway and direct-proxy"
    /\ now = 0
    /\ credential_cache = [a \in Accounts |-> NoCred]
    /\ session_cache = [a \in Accounts |-> NoSession]
    /\ global_session_id = NoSession
    /\ inv = [q \in Slots |-> Idle]
    /\ RegistryUnused
    /\ ClientUnused
    /\ AgentUnused
    /\ BrokersUnused

NextBrokers ==
    \/ BrokersGetCredentials
    \/ BrokersAssumeRoleSucceeds
    \/ BrokersAssumeRoleFails
    \/ BrokersReturn
    \/ BrokersTick

SpecBrokers == InitBrokers /\ [][NextBrokers]_vars

(***************************************************************************)
(* SpecRegistry: an AccountManager is constructed over any registry of     *)
(* up to MaxRegistry entries, and list_accounts is called on it.           *)
(***************************************************************************)
InitRegistry ==
    /\ deployment = "direct-proxy"
    /\ now = 0
    /\ credential_cache = [a \in Accounts |-> NoCred]
    /\ session_cache = [a \in Accounts |-> NoSession]
    /\ global_session_id = NoSession
    /\ inv = [q \in Slots |-> Idle]
    /\ accounts \in Registries
    /\ listed = NotCalled
    /\ ClientUnused
    /\ AgentUnused
    /\ BrokersUnused

NextRegistry == ListAccounts

SpecRegistry == InitRegistry /\ [][NextRegistry]_vars

(***************************************************************************)
(* SpecClient: an MCPClient is constructed for a region and is called      *)
(* again and again.                                                        *)
(***************************************************************************)
InitClient ==
    /\ deployment = "direct-proxy"
    /\ now = 0
    /\ credential_cache = [a \in Accounts |-> NoCred]
    /\ session_cache = [a \in Accounts |-> NoSession]
    /\ global_session_id = NoSession
    /\ inv = [q \in Slots |-> Idle]
    /\ RegistryUnused
    /\ mcp_client \in {NewClient(region) : region \in {"us-east-1", "us-west-2"}}
    /\ AgentUnused
    /\ BrokersUnused

NextClient ==
    \/ CallTool
    \/ ListTools
    \/ ProxyExited
    \/ ProxyTimedOut
    \/ ClientReturn

SpecClient == InitClient /\ [][NextClient]_vars

(***************************************************************************)
(* SpecAgent: an agent process with or without a Gateway URL and an        *)
(* accounts table; process_tool_call and converse_with_tools are called    *)
(* on it, one call at a time, against every behaviour of the model in      *)
(* Scripts.  The bridge behind the Gateway is on a cold context and is     *)
(* followed up to its first outbound call.                                 *)
(***************************************************************************)
InitAgent ==
    /\ deployment = "agentcore-gateway"
    /\ now = 0
    /\ credential_cache = [a \in Accounts |-> NoCred]
    /\ session_cache = [a \in Accounts |-> NoSession]
    /\ global_session_id = NoSession
    /\ inv = [q \in Slots |-> Idle]
    /\ RegistryUnused
    /\ ClientUnused
    /\ agent \in { NewAgent("https://gateway", "accounts"), NewAgent("", "") }
    /\ BrokersUnused

NextAgent ==
    \/ ProcessToolCallInvoked
    \/ ConverseWithTools
    \/ ModelAnswered
    \/ ModelRaised
    \/ ConverseWithToolsStreaming
    \/ StreamAnswered
    \/ StreamRaised
    \/ ScanAnswered
    \/ ScanRaised
    \/ GatewayInvokesBridge
    \/ GatewayAnswered
    \/ AgentReturn

SpecAgent == InitAgent /\ [][NextAgent]_vars

(***************************************************************************)
(* Vocabulary of the properties.                                           *)
(***************************************************************************)
\* how many requests of a method an invocation has sent
Count(r, method) == Cardinality({i \in 1..Len(r.calls) : r.calls[i].method = method})

Sent(r, method) == Count(r, method) > 0

\* the session entry of a scope now, and when the invocation started
SessionEntry(scope) ==
    IF scope = "global" THEN global_session_id ELSE session_cache[scope]

PreSession(r) ==
    IF r.scope = "global" THEN r.pre_gs ELSE r.pre_sc[r.scope]

\* get_credentials(A) was entered and found a cached credential for A
FoundCached(r) == r.called /\ r.account \in Accounts /\ r.pre_cc[r.account] # NoCred

\* the value handler returned carries an 'error' member
CarriesError(r) == r.result.error # <<>> \/ r.result.body.kind = "error"

(***************************************************************************)
(* C1  Credential reuse.  When get_credentials(A) finds a cached           *)
(* credential for A with now + 5 minutes < expiration, it returns that     *)
(* credential, sends no assume-role request and leaves the entry as it is; *)
(* and the credential get_credentials returned is the cache entry of A, so *)
(* that a second request inside the window finds it: two sequential        *)
(* requests inside the window send at most one assume-role request.        *)
(***************************************************************************)
C1_CredentialReuse ==
    \A p \in Slots :
        LET r == inv[p] IN
        /\ (FoundCached(r) /\ now + 5 < r.pre_cc[r.account].expiration)
              => /\ r.creds = r.pre_cc[r.account]
                 /\ ~Sent(r, "assume_role")
                 /\ credential_cache[r.account] = r.pre_cc[r.account]
        /\ (r.called /\ r.creds # NoCred)
              => /\ credential_cache[r.account] = r.creds
                 /\ Count(r, "assume_role") <= 1

\* a Gateway invocation that reused a cached credential and got its result
C1_Witness ==
    \E p \in Slots :
        /\ inv[p].pc = "done"
        /\ inv[p].shape = "gateway"
        /\ FoundCached(inv[p])
        /\ now + 5 < inv[p].pre_cc[inv[p].account].expiration
        /\ inv[p].result.body.kind = "result"

(***************************************************************************)
(* C2  Credential refresh.  When get_credentials(A) finds a cached         *)
(* credential for A with now + 5 minutes >= expiration (the boundary and   *)
(* an expired credential included), it sends exactly one assume-role       *)
(* request, and when STS answers it, the cache entry of A is replaced by   *)
(* the credential it returns, whose expiration is later than that of the   *)
(* previous one.                                                           *)
(***************************************************************************)
C2_CredentialRefresh ==
    \A p \in Slots :
        LET r == inv[p] IN
        (FoundCached(r) /\ now + 5 >= r.pre_cc[r.account].expiration)
           => /\ Count(r, "assume_role") = 1
              /\ r.calls[1].method = "assume_role"
              /\ r.calls[1].account = r.account
              /\ r.creds # NoCred
                    => /\ r.creds # r.pre_cc[r.account]
                       /\ credential_cache[r.account] = r.creds
                       /\ r.creds.expiration > r.pre_cc[r.account].expiration

\* a refresh on the boundary now + 5 = expiration that STS answered
C2_Witness ==
    \E p \in Slots :
        /\ FoundCached(inv[p])
        /\ now + 5 = inv[p].pre_cc[inv[p].account].expiration
        /\ inv[p].creds # NoCred
        /\ inv[p].pc = "done"

(***************************************************************************)
(* C3  Credential freshness.  Every credential get_credentials returns,    *)
(* cached or fresh, has more than 5 minutes of validity left at the moment *)
(* it is returned.                                                         *)
(***************************************************************************)
C3_CredentialFreshness ==
    \A p \in Slots :
        LET r == inv[p] IN
        (r.called /\ r.creds # NoCred)
           => /\ r.at = now
              /\ r.creds.expiration > r.at + 5

\* a cached credential returned 50 minutes after it was issued
C3_Witness ==
    \E p \in Slots :
        /\ FoundCached(inv[p])
        /\ inv[p].creds = inv[p].pre_cc[inv[p].account]
        /\ inv[p].creds.expiration = inv[p].at + 10

(***************************************************************************)
(* C4  Session reuse.  An invocation that starts when its scope (its       *)
(* account, or the global scope) has a session entry h sends no            *)
(* initialize, and its tools/call carries h in the Mcp-Session-Id header,  *)
(* whatever the operation and the region; and the session an invocation    *)
(* obtained by its handshake is the entry of its scope afterwards.         *)
(***************************************************************************)
C4_SessionReuse ==
    \A p \in Slots :
        LET r == inv[p] IN
        /\ (r.scope \in Scopes /\ r.shape # "account_manager" /\ PreSession(r) # NoSession)
              => /\ ~Sent(r, "initialize")
                 /\ \A i \in 1..Len(r.calls) :
                       r.calls[i].method = "tools/call" => r.calls[i].header = PreSession(r)
                 /\ SessionEntry(r.scope) = PreSession(r)
        /\ (Sent(r, "initialize") /\ Sent(r, "tools/call"))
              => /\ LastCall(r).header = r.session
                 /\ r.session # NoSession
                 /\ SessionEntry(r.scope) = r.session

\* a second invocation for an account, for another region, that was
\* answered over the session of the first
C4_Witness ==
    \E p \in Slots :
        /\ inv[p].pc = "done"
        /\ inv[p].scope \in Accounts
        /\ inv[p].region = "us-west-2"
        /\ PreSession(inv[p]) # NoSession
        /\ Sent(inv[p], "tools/call")
        /\ inv[p].result.body.kind = "result"

(***************************************************************************)
(* C5  A failed handshake is never cached.  When the answer to an          *)
(* initialize carries an 'error' member, or no session identifier header   *)
(* (none, or an empty one), or the request raises, the session entry of    *)
(* the scope stays absent and the invocation returns an error without      *)
(* sending tools/call; and every invocation that reaches the session step  *)
(* with an absent entry sends initialize, so the handshake is tried again  *)
(* until one succeeds.                                                     *)
(***************************************************************************)
HandshakeFailed(h) ==
    h # NoHandshake /\ (h.raised \/ h.kind = "error" \/ h.header = Absent \/ ~h.value)

C5_FailedHandshakeNotCached ==
    \A p \in Slots :
        LET r == inv[p] IN
        /\ HandshakeFailed(r.handshake)
              => /\ r.pc = "done"
                 /\ PreSession(r) = NoSession
                 /\ SessionEntry(r.scope) = NoSession
                 /\ r.session = NoSession
                 /\ ~r.result.raised
                 /\ r.result.error # <<>>
                 /\ ~Sent(r, "tools/call")
        /\ ( /\ r.scope \in Scopes
             /\ r.shape # "account_manager"
             /\ PreSession(r) = NoSession
             /\ r.scope = "global" \/ r.creds # NoCred )
              => Count(r, "initialize") = 1

\* the server answered the initialize of an account with a session header
\* and a JSON-RPC error
C5_Witness ==
    \E p \in Slots :
        /\ inv[p].pc = "done"
        /\ inv[p].scope \in Accounts
        /\ inv[p].handshake.kind = "error"
        /\ inv[p].handshake.header = "Mcp-Session-Id"
        /\ inv[p].handshake.value

(***************************************************************************)
(* C6  Scope isolation of global operations.  A query whose operation is   *)
(* in the global set sends no assume-role request, does not enter          *)
(* get_credentials, reads and writes neither the credential cache nor the  *)
(* per-account session cache, whether or not an account identifier comes   *)
(* with it and whatever the caches hold; all its requests are signed with  *)
(* the ambient identity and its tools/call carries the global session.     *)
(***************************************************************************)
IsQuery(r) ==
    \/ r.shape = "gateway" /\ CtxToolName(r.ctx) = <<"query">>
    \/ r.shape = "direct" /\ r.body = "object" /\ r.action = "query"

C6_GlobalScopeIsolation ==
    \A p \in Slots :
        LET r == inv[p] IN
        (IsQuery(r) /\ r.tool \in GLOBAL_TOOLS)
           => /\ r.scope = "global"
              /\ ~r.called
              /\ r.creds = NoCred
              /\ ~Sent(r, "assume_role")
              /\ r.touched \subseteq {"global_session_id"}
              /\ credential_cache = r.pre_cc
              /\ session_cache = r.pre_sc
              /\ \A i \in 1..Len(r.calls) :
                    /\ r.calls[i].signer = Ambient
                    /\ r.calls[i].method = "tools/call"
                          => r.calls[i].header = global_session_id

\* a global operation that came with an account identifier whose
\* credentials and session are cached, and was answered
C6_Witness ==
    \E p \in Slots :
        /\ inv[p].pc = "done"
        /\ inv[p].tool \in GLOBAL_TOOLS
        /\ inv[p].account \in Accounts
        /\ inv[p].pre_cc[inv[p].account] # NoCred
        /\ inv[p].pre_sc[inv[p].account] # NoSession
        /\ inv[p].result.body.kind = "result"

(***************************************************************************)
(* C7  A query for an operation outside the global set with an absent or   *)
(* empty account identifier returns an error that names account_id, sends  *)
(* no request at all and leaves the credential cache and both session      *)
(* caches as they are, in the Gateway shape and in the direct shape, where *)
(* the status code is 400.                                                 *)
(***************************************************************************)
C7_MissingAccountId ==
    \A p \in Slots :
        LET r == inv[p] IN
        (IsQuery(r) /\ ~Falsy(r.tool) /\ r.tool \notin GLOBAL_TOOLS /\ r.account \in {Absent, Empty})
           => /\ r.pc = "done"
              /\ ~r.result.raised
              /\ Names(r.result.error, "account_id")
              /\ r.result.body = NoBody
              /\ r.calls = <<>>
              /\ r.touched = {}
              /\ credential_cache = r.pre_cc
              /\ session_cache = r.pre_sc
              /\ global_session_id = r.pre_gs
              /\ r.result.statusCode = IF r.shape = "direct" THEN 400 ELSE 0

\* a direct query with an empty account identifier
C7_Witness ==
    \E p \in Slots :
        /\ inv[p].pc = "done"
        /\ inv[p].shape = "direct"
        /\ inv[p].tool = "aws___list_regions"
        /\ inv[p].account = Empty

(***************************************************************************)
(* C8  Unknown operation.  As claimed: a query for an operation name that  *)
(* is neither in the global set nor an account-scoped operation the        *)
(* server knows yields an unknown-operation error and sends no request.    *)
(***************************************************************************)
C8_UnknownOperationRejected ==
    \A p \in Slots :
        LET r == inv[p] IN
        (IsQuery(r) /\ ~Falsy(r.tool) /\ r.tool \notin GLOBAL_TOOLS \cup KnownAccountTools)
           => /\ r.calls = <<>>
              /\ r.pc = "done"
              /\ Names(r.result.error, "Unknown")

(***************************************************************************)
(* C8, as amended.  The bridge does not reject operation names: a query    *)
(* for a name outside the global set is account-scoped, whatever the name  *)
(* is, and with an account identifier it enters get_credentials for that   *)
(* account and goes on to the downstream server.  The bridge's unknown     *)
(* errors are about the Gateway tool name and the direct action only, and  *)
(* those invocations send no request.                                      *)
(***************************************************************************)
C8_UnknownOperationForwarded ==
    \A p \in Slots :
        LET r == inv[p] IN
        /\ (IsQuery(r) /\ ~Falsy(r.tool) /\ r.tool \notin GLOBAL_TOOLS /\ ~Falsy(r.account))
              => /\ r.scope = r.account
                 /\ r.called
                 /\ r.calls # <<>>
                 /\ ~Names(r.result.error, "Unknown")
                 /\ r.result.body.kind # "none" => Sent(r, "tools/call")
        /\ Names(r.result.error, "Unknown")
              => /\ ~IsQuery(r)
                 /\ r.pc = "done"
                 /\ r.calls = <<>>
                 /\ credential_cache = r.pre_cc
                 /\ session_cache = r.pre_sc
                 /\ global_session_id = r.pre_gs

\* a name no server knows was sent downstream as a tools/call
C8_Witness ==
    \E p \in Slots :
        /\ inv[p].pc = "done"
        /\ inv[p].tool = "no_such_operation"
        /\ Sent(inv[p], "tools/call")
        /\ inv[p].result.body.kind = "error"

(***************************************************************************)
(* C10  The entry point never lets an exception reach its caller: every    *)
(* invocation of handler, in either shape, returns a value.                *)
(***************************************************************************)
C10_HandlerNeverRaises ==
    \A p \in Slots :
        (inv[p].pc = "done" /\ inv[p].shape \in {"gateway", "direct"})
           => ~inv[p].result.raised

(***************************************************************************)
(* C9  Failure isolation.  An invocation for account A whose assume-role   *)
(* fails changes nothing another invocation reads: neither of its steps    *)
(* (the entry up to the assume-role request, and the failure) changes an   *)
(* entry of the credential cache or of the session caches, or the          *)
(* invocation of the other slot, whether that one is still to come or in   *)
(* flight; and every invocation for an account B sends requests for B      *)
(* only, signed with the ambient identity (assume-role) or with            *)
(* credentials of B, carrying sessions of B only.  So the invocation for B *)
(* sends the same requests and returns the same result as without the      *)
(* invocation for A.                                                       *)
(***************************************************************************)
C9_FailingStep(p) ==
    \/ inv[p].pc = "idle" /\ inv'[p].pc = "assume_role"
    \/ /\ inv[p].pc = "assume_role"
       /\ inv'[p].pc = "done"
       /\ inv'[p].result.error = AssumeRoleDenied

C9_OwnRequestsOnly(r) ==
    r.scope \in Accounts
       => /\ r.creds \in {NoCred, credential_cache[r.scope], r.pre_cc[r.scope]}
             \/ r.creds.access_key_id.role_account = r.scope
          /\ r.session.scope \in {"none", r.scope}
          /\ \A i \in 1..Len(r.calls) :
                /\ r.calls[i].account = r.scope
                /\ r.calls[i].header.scope \in {"none", r.scope}
                /\ r.calls[i].signer = Ambient => r.calls[i].method = "assume_role"

C9_FailureIsolation ==
    /\ [](\A p \in Slots : C9_OwnRequestsOnly(inv[p]))
    /\ [][\A p \in Slots :
             C9_FailingStep(p)
                => /\ credential_cache' = credential_cache
                   /\ session_cache' = session_cache
                   /\ global_session_id' = global_session_id
                   /\ \A q \in Slots \ {p} : inv'[q] = inv[q]]_vars

\* the assume-role of one account has failed while the invocation for the
\* other account, with fresh credentials and a new session, is in flight
C9_Witness ==
    \E p, q \in Slots :
        /\ inv[p].pc = "done"
        /\ inv[p].result.error = AssumeRoleDenied
        /\ inv[q].pc = "tools_call"
        /\ inv[q].scope \in Accounts \ {inv[p].scope}
        /\ Sent(inv[q], "assume_role")
        /\ Sent(inv[q], "initialize")

(***************************************************************************)
(* C11  Verbatim pass-through.  Whenever the tools/call is answered with a *)
(* body R, with a 'result' or with an 'error' member, handler returns      *)
(* normally: in the Gateway shape it returns R itself, not wrapped in an   *)
(* error object or a status; in the direct shape it returns status 200     *)
(* and a body text that parses back to exactly the members of R.           *)
(***************************************************************************)
C11_VerbatimPassThrough ==
    \A p \in Slots :
        LET r == inv[p] IN
        r.received # NoBody
           => /\ r.pc = "done"
              /\ ~r.result.raised
              /\ r.result.error = <<>>
              /\ r.result.body = r.received
              /\ r.shape = "gateway"
                    => r.result.statusCode = 0 /\ r.result.text = <<>>
              /\ r.shape = "direct"
                    => /\ r.result.statusCode = 200
                       /\ JsonLoads(r.result.text) = ResponseObject(r.received)

\* a direct invocation whose tools/call was answered with a JSON-RPC error
C11_Witness ==
    \E p \in Slots :
        /\ inv[p].pc = "done"
        /\ inv[p].shape = "direct"
        /\ inv[p].received.kind = "error"
        /\ inv[p].result.statusCode = 200

(***************************************************************************)
(* C12  An established session is permanent.  Once the session entry of a  *)
(* scope holds a handle, no step of any invocation changes it, whatever    *)
(* the scope of the invocation and whether its calls succeed or fail, a    *)
(* credential refresh for that account included; an initialize is sent     *)
(* only for a scope whose entry is absent; and an entry changes only by    *)
(* the answer to an initialize of that scope, from absent to the handle    *)
(* of the answer: so each scope sees at most one successful handshake.     *)
(***************************************************************************)
C12_SendsInitialize(p) ==
    Count(inv'[p], "initialize") > Count(inv[p], "initialize")

C12_SessionPermanent ==
    /\ [][\A s \in Scopes :
             SessionEntry(s) # NoSession => SessionEntry(s)' = SessionEntry(s)]_vars
    /\ [][\A p \in Slots :
             C12_SendsInitialize(p) => SessionEntry(inv'[p].scope) = NoSession]_vars
    /\ [][\A s \in Scopes :
             SessionEntry(s)' # SessionEntry(s)
                => \E p \in Slots :
                      /\ inv[p].pc = "initialize"
                      /\ inv[p].scope = s
                      /\ inv'[p].session = SessionEntry(s)'
                      /\ ~HandshakeFailed(inv'[p].handshake)]_vars

\* an invocation that found the session of its account, refreshed the
\* credentials of the account and was answered an error
C12_Witness ==
    \E p \in Slots :
        /\ inv[p].pc = "done"
        /\ inv[p].scope \in Accounts
        /\ PreSession(inv[p]) # NoSession
        /\ FoundCached(inv[p])
        /\ Sent(inv[p], "assume_role")
        /\ inv[p].received.kind = "error"
        /\ SessionEntry(inv[p].scope) = PreSession(inv[p])

(***************************************************************************)
(* C13  Stale session.  When a tools/call that carried the cached handle h *)
(* of its scope is rejected, by a response with an 'error' member or by an *)
(* HTTP error, the invocation returns that rejection as an error (the      *)
(* response itself, or the message of the HTTP error), has sent no         *)
(* initialize and exactly one tools/call, and the session entry of the     *)
(* scope is still h; and every invocation that starts with the entry h     *)
(* sends h and no initialize, so the bridge never replaces the session.    *)
(***************************************************************************)
C13_Rejected(r) ==
    /\ r.pc = "done"
    /\ Sent(r, "tools/call")
    /\ r.received.kind = "error" \/ r.result.error = TransportFailure

C13_StaleSessionSurfaced ==
    \A p \in Slots :
        LET r == inv[p]
            h == PreSession(r)
        IN  (r.scope \in Scopes /\ r.shape # "account_manager" /\ h # NoSession)
               => /\ ~Sent(r, "initialize")
                  /\ SessionEntry(r.scope) = h
                  /\ \A i \in 1..Len(r.calls) :
                        r.calls[i].method = "tools/call" => r.calls[i].header = h
                  /\ C13_Rejected(r)
                        => /\ ~r.result.raised
                           /\ CarriesError(r)
                           /\ Count(r, "tools/call") = 1
                           /\ LastCall(r).method = "tools/call"
                           /\ r.received.kind = "error"
                                 => r.result.body = r.received /\ r.result.error = <<>>
                           /\ r.received = NoBody
                                 => r.result.error = TransportFailure
                                    /\ r.result.statusCode \in {0, 500}

\* the tools/call of a global operation, sent with the cached global handle,
\* ended in an HTTP error
C13_Witness ==
    \E p \in Slots :
        /\ inv[p].scope = "global"
        /\ PreSession(inv[p]) # NoSession
        /\ C13_Rejected(inv[p])
        /\ inv[p].received = NoBody

(***************************************************************************)
(* C14  No automatic retry.  An invocation sends at most one assume-role   *)
(* request, at most one initialize and at most one tools/call, and the     *)
(* call that fails is its last: after a refused assume-role it has sent    *)
(* nothing else, after a failed handshake (an HTTP error, an 'error'       *)
(* member, no session header) no tools/call, after a failed tools/call     *)
(* nothing more, and it has returned its error.                            *)
(***************************************************************************)
C14_NoRetry ==
    \A p \in Slots :
        LET r == inv[p] IN
        /\ Count(r, "assume_role") <= 1
        /\ Count(r, "initialize") <= 1
        /\ Count(r, "tools/call") <= 1
        /\ Len(r.calls) <= 3
        /\ r.result.error = AssumeRoleDenied
              => /\ Len(r.calls) = 1
                 /\ LastCall(r).method = "assume_role"
        /\ HandshakeFailed(r.handshake)
              => /\ r.pc = "done"
                 /\ r.result.error # <<>>
                 /\ LastCall(r).method = "initialize"
                 /\ ~Sent(r, "tools/call")
        /\ (r.result.error = TransportFailure /\ ~r.handshake.raised)
              => /\ r.pc = "done"
                 /\ LastCall(r).method = "tools/call"
        /\ r.pc \in {"assume_role", "initialize", "tools_call"}
              => /\ r.result = NoResult
                 /\ LastCall(r).method =
                       IF r.pc = "tools_call" THEN "tools/call" ELSE r.pc

\* an invocation that obtained credentials and then got an HTTP error for
\* its initialize
C14_Witness ==
    \E p \in Slots :
        /\ inv[p].pc = "done"
        /\ Sent(inv[p], "assume_role")
        /\ inv[p].handshake.raised
        /\ Len(inv[p].calls) = 2

(***************************************************************************)
(* C15  Missing operation name.  A query whose tool_name is absent or      *)
(* empty returns an error that names tool_name and not account_id, also    *)
(* when the account identifier is absent too; it has sent no request, has  *)
(* read no cache and left the credential cache and both session caches as  *)
(* they were; in the direct shape the status code is 400.                  *)
(***************************************************************************)
C15_MissingToolName ==
    \A p \in Slots :
        LET r == inv[p] IN
        (IsQuery(r) /\ r.tool \in {Absent, Empty})
           => /\ r.pc = "done"
              /\ ~r.result.raised
              /\ Names(r.result.error, "tool_name")
              /\ ~Names(r.result.error, "account_id")
              /\ r.result.body = NoBody
              /\ r.calls = <<>>
              /\ r.touched = {}
              /\ ~r.called
              /\ credential_cache = r.pre_cc
              /\ session_cache = r.pre_sc
              /\ global_session_id = r.pre_gs
              /\ r.result.statusCode = IF r.shape = "direct" THEN 400 ELSE 0
              /\ r.shape = "direct"
                    => JsonLoads(r.result.text) = ErrorObject(MissingToolName)

\* a direct query without tool_name and without account_id, on a context
\* whose caches are filled
C15_Witness ==
    \E p \in Slots :
        /\ inv[p].pc = "done"
        /\ inv[p].shape = "direct"
        /\ inv[p].action = "query"
        /\ inv[p].tool = Absent
        /\ inv[p].account = Absent
        /\ \E a \in Accounts : credential_cache[a] # NoCred /\ session_cache[a] # NoSession

(***************************************************************************)
(* C16  Handshake success by a case-insensitive header lookup.  The answer *)
(* to an initialize establishes the session if and only if its body has no *)
(* 'error' member and a response header whose name is Mcp-Session-Id in    *)
(* any letter casing carries a non-empty session identifier; otherwise the *)
(* handshake fails.                                                        *)
(***************************************************************************)
\* a header name in lower case
LowerCase(name) ==
    IF name \in {"Mcp-Session-Id", "mcp-session-id", "MCP-SESSION-ID"}
    THEN "mcp-session-id"
    ELSE name

C16_CaseInsensitiveHandshake ==
    \A p \in Slots :
        LET r == inv[p]
            h == r.handshake
        IN  h # NoHandshake
               => ( (r.session # NoSession /\ SessionEntry(r.scope) = r.session)
                    <=> /\ ~h.raised
                        /\ h.kind # "error"
                        /\ LowerCase(h.header) = "mcp-session-id"
                        /\ h.value )

(***************************************************************************)
(* C17  Concurrency.  As claimed: when two invocations of the same account *)
(* that both started with no usable credential and no session entry        *)
(* interleave on one context, and both get as far as their tools/call, at  *)
(* most one assume-role request and at most one initialize were sent for   *)
(* the account, and both use the same credential and the same session.     *)
(***************************************************************************)
C17_StartedCold(r) ==
    /\ r.shape = "gateway"
    /\ r.scope \in Accounts
    /\ CachedCredentials(r.pre_cc, r.scope, now) = NoCred
    /\ r.pre_sc[r.scope] = NoSession

C17_MutualExclusion ==
    \A p, q \in Slots :
        ( /\ p # q
          /\ C17_StartedCold(inv[p])
          /\ C17_StartedCold(inv[q])
          /\ inv[p].scope = inv[q].scope
          /\ Sent(inv[p], "tools/call")
          /\ Sent(inv[q], "tools/call") )
           => /\ Count(inv[p], "assume_role") + Count(inv[q], "assume_role") <= 1
              /\ Count(inv[p], "initialize") + Count(inv[q], "initialize") <= 1
              /\ inv[p].creds = inv[q].creds
              /\ inv[p].session = inv[q].session

(***************************************************************************)
(* C17, as amended.  The bridge has no mutual exclusion of its own.  Each  *)
(* invocation decides by what it finds in the caches at the moment it      *)
(* looks: it sends its own assume-role request exactly when it finds no    *)
(* usable credential, and its own initialize exactly when it finds no      *)
(* session entry, also while the same call of another invocation of the    *)
(* account is in flight; each sends at most one of either, signs with the  *)
(* credential and sends the handle it obtained or found itself, both of    *)
(* its account; and the answer to its initialize is stored over whatever   *)
(* the entry holds by then.                                                *)
(***************************************************************************)
C17_ReachesSessionStep(p) ==
    /\ inv[p].pc \in {"idle", "assume_role"}
    /\ inv'[p].pc \in {"initialize", "tools_call"}
    /\ inv'[p].scope \in Accounts

C17_NoMutualExclusion ==
    /\ [](\A p \in Slots :
            LET r == inv[p] IN
            (r.shape = "gateway" /\ r.scope \in Accounts)
               => /\ Count(r, "assume_role") <= 1
                  /\ Count(r, "initialize") <= 1
                  /\ Sent(r, "assume_role")
                        <=> CachedCredentials(r.pre_cc, r.scope, now) = NoCred
                  /\ r.creds # NoCred => r.creds.access_key_id.role_account = r.scope
                  /\ r.session # NoSession => r.session.scope = r.scope
                  /\ \A i \in 1..Len(r.calls) :
                        r.calls[i].method = "tools/call"
                           => r.calls[i].signer = r.creds /\ r.calls[i].header = r.session)
    /\ [][\A p \in Slots :
             /\ C17_ReachesSessionStep(p)
                   => (inv'[p].pc = "initialize"
                          <=> session_cache[inv'[p].scope] = NoSession)
             /\ (inv[p].pc = "initialize" /\ inv'[p].pc = "tools_call"
                   /\ inv[p].scope \in Accounts)
                   => session_cache'[inv[p].scope] = inv'[p].session]_vars

\* two invocations of one account that both refreshed the expiring
\* credential and both initialized, and hold different sessions
C17_Witness ==
    \E p, q \in Slots :
        /\ p # q
        /\ inv[p].scope \in Accounts
        /\ inv[p].scope = inv[q].scope
        /\ inv[p].pc = "tools_call"
        /\ inv[q].pc = "tools_call"
        /\ inv[p].pre_cc[inv[p].scope] # NoCred
        /\ Count(inv[p], "assume_role") + Count(inv[q], "assume_role") = 2
        /\ Count(inv[p], "initialize") + Count(inv[q], "initialize") = 2
        /\ inv[p].session # inv[q].session
        /\ session_cache[inv[p].scope] = inv[q].session

(***************************************************************************)
(* C18  Copy-on-write credential cache.  In every state, those in which an *)
(* assume-role request of a refresh is in flight included, each entry of   *)
(* the credential cache is a whole record of one assume-role response for  *)
(* its account: access key, secret key and session token of the same       *)
(* response and the expiration of that response; and so is every           *)
(* credential an invocation found in the cache or was returned.            *)
(***************************************************************************)
C18_OneResponse(creds, account_id) ==
    /\ creds.access_key_id.role_account = account_id
    /\ creds.access_key_id.role = TARGET_ROLE_NAME
    /\ creds.secret_access_key = creds.access_key_id
    /\ creds.session_token = creds.access_key_id
    /\ creds.expiration = creds.access_key_id.issued + SessionDuration

C18_CopyOnWrite ==
    /\ \A a \in Accounts :
          credential_cache[a] # NoCred => C18_OneResponse(credential_cache[a], a)
    /\ \A p \in Slots :
          /\ inv[p].creds # NoCred => C18_OneResponse(inv[p].creds, inv[p].account)
          /\ \A a \in Accounts :
                inv[p].pre_cc[a] # NoCred => C18_OneResponse(inv[p].pre_cc[a], a)

\* while the assume-role request of one invocation's refresh is in flight,
\* another invocation of the account reads the entry a finished refresh
\* has stored
C18_Witness ==
    \E p, q \in Slots :
        /\ p # q
        /\ inv[p].pc = "assume_role"
        /\ inv[p].pre_cc[inv[p].account] # NoCred
        /\ inv[q].account = inv[p].account
        /\ ~Sent(inv[q], "assume_role")
        /\ inv[q].creds # NoCred
        /\ inv[q].creds = credential_cache[inv[p].account]
        /\ inv[q].creds # inv[p].pre_cc[inv[p].account]

(***************************************************************************)
(* C19  Routing is a partition.  A query with a non-empty operation name   *)
(* takes exactly one path.  A name of the global set: call_aws_mcp_global  *)
(* is called once, with the name and the arguments of the event, and       *)
(* call_aws_mcp is not called.  Any other name with a non-empty account    *)
(* identifier: call_aws_mcp is called once, with the name, the arguments,  *)
(* the account identifier and the region of the event, and                 *)
(* call_aws_mcp_global is not called.  Absent arguments are the empty map, *)
(* an absent region is us-east-1; and every tools/call carries the name    *)
(* and the arguments of the event.                                         *)
(***************************************************************************)
C19_RoutingPartition ==
    \A p \in Slots :
        LET r == inv[p]
            name == r.ev.tool
            arguments == IF r.ev.arguments.present THEN r.ev.arguments.value ELSE <<>>
            region == IF r.ev.region = Absent THEN "us-east-1" ELSE r.ev.region
        IN  (IsQuery(r) /\ ~Falsy(name))
               => /\ name \in GLOBAL_TOOLS
                        => r.path = << [ fn |-> "call_aws_mcp_global",
                                         tool_name |-> name,
                                         arguments |-> arguments,
                                         account_id |-> "n/a",
                                         region |-> "n/a" ] >>
                  /\ (name \notin GLOBAL_TOOLS /\ ~Falsy(r.ev.account))
                        => r.path = << [ fn |-> "call_aws_mcp",
                                         tool_name |-> name,
                                         arguments |-> arguments,
                                         account_id |-> r.ev.account,
                                         region |-> region ] >>
                  /\ (name \notin GLOBAL_TOOLS /\ Falsy(r.ev.account))
                        => r.path = <<>>
                  /\ \A i \in 1..Len(r.calls) :
                        r.calls[i].method = "tools/call"
                           => /\ r.calls[i].name = name
                              /\ r.calls[i].arguments = arguments

\* an account-scoped direct query without arguments and without a region
\* that was answered
C19_Witness ==
    \E p \in Slots :
        /\ inv[p].pc = "done"
        /\ inv[p].received # NoBody
        /\ inv[p].shape = "direct"
        /\ inv[p].ev.tool = "aws___list_regions"
        /\ ~inv[p].ev.arguments.present
        /\ inv[p].ev.region = Absent
        /\ inv[p].path[1].region = "us-east-1"
        /\ inv[p].path[1].arguments = <<>>

(***************************************************************************)
(* C20  Status mapping of the direct shape.  A direct invocation returns   *)
(* status 400, and sends nothing, for a body that is not JSON, an action   *)
(* other than 'query', a missing tool_name and a missing account_id of an  *)
(* account-scoped tool; status 500 for a failure of the assume-role, of    *)
(* the handshake or of the tools/call; status 200 exactly when the         *)
(* tools/call was answered with a response; and with 400 and 500 its body  *)
(* is the text of an object whose 'error' member is the message.           *)
(***************************************************************************)
C20_ValidationFailure(r) ==
    \/ r.ev.body = "invalid_json"
    \/ r.ev.body = "object" /\ r.ev.action # "query"
    \/ IsQuery(r) /\ Falsy(r.ev.tool)
    \/ IsQuery(r) /\ ~Falsy(r.ev.tool) /\ r.ev.tool \notin GLOBAL_TOOLS /\ Falsy(r.ev.account)

C20_CallFailure(r) ==
    \/ r.result.error = AssumeRoleDenied
    \/ HandshakeFailed(r.handshake)
    \/ Sent(r, "tools/call") /\ r.received = NoBody

C20_DirectStatusMapping ==
    \A p \in Slots :
        LET r == inv[p] IN
        (r.shape = "direct" /\ r.pc = "done")
           => /\ C20_ValidationFailure(r)
                    => r.result.statusCode = 400 /\ r.calls = <<>>
              /\ C20_CallFailure(r) => r.result.statusCode = 500
              /\ r.result.statusCode = 200 <=> r.received # NoBody
              /\ r.result.statusCode \in {400, 500}
                    => /\ r.result.error # <<>>
                       /\ JsonLoads(r.result.text) = ErrorObject(r.result.error)
              /\ ~r.result.raised => r.result.statusCode \in {200, 400, 500}

\* a direct query whose initialize was answered without a session header
C20_Witness ==
    \E p \in Slots :
        /\ inv[p].pc = "done"
        /\ inv[p].shape = "direct"
        /\ inv[p].handshake.kind = "result"
        /\ inv[p].handshake.header = Absent
        /\ inv[p].result.statusCode = 500

(***************************************************************************)
(* C21  Unknown Gateway tool.  A Gateway invocation whose tool name, with  *)
(* the prefix up to the first "___" dropped, is not query returns an       *)
(* error object 'Unknown tool:' followed by that name, whatever tool_name, *)
(* account_id, region and arguments the event holds; it has sent nothing,  *)
(* called neither path, read no cache, and the credential cache and both   *)
(* session caches are as they were.                                        *)
(***************************************************************************)
C21_RestAfterFirstSeparator(full_tool_name) ==
    IF Len(full_tool_name) > 1 THEN Tail(full_tool_name) ELSE full_tool_name

C21_UnknownGatewayTool ==
    \A p \in Slots :
        LET r == inv[p] IN
        (/\ r.ev.ctx # NoContext
         /\ C21_RestAfterFirstSeparator(r.ev.ctx) # <<"query">>)
           => /\ r.pc = "done"
              /\ ~r.result.raised
              /\ r.shape = "gateway"
              /\ r.result.error = <<"Unknown", "tool:">> \o
                    C21_RestAfterFirstSeparator(r.ev.ctx)
              /\ r.result.body = NoBody
              /\ r.result.statusCode = 0
              /\ r.calls = <<>>
              /\ r.path = <<>>
              /\ r.touched = {}
              /\ credential_cache = r.pre_cc
              /\ session_cache = r.pre_sc
              /\ global_session_id = r.pre_gs

\* the tool bridge-lambda___query___v2 with a complete query as its event,
\* on a context that holds the credentials and the session of the account
C21_Witness ==
    \E p \in Slots :
        /\ inv[p].pc = "done"
        /\ inv[p].ev.ctx = <<"bridge-lambda", "query", "v2">>
        /\ inv[p].ev.account \in Accounts
        /\ credential_cache[inv[p].ev.account] # NoCred
        /\ session_cache[inv[p].ev.account] # NoSession

(***************************************************************************)
(* C22  A failed role assumption is not cached and changes nothing.  The   *)
(* step in which the assume-role of an invocation for account A fails      *)
(* leaves the credential cache and both session caches as they are; the    *)
(* invocation ends with an error object (status 500 in the direct shape),  *)
(* having sent that one assume-role and no initialize and no tools/call,   *)
(* and the cache still holds no usable credentials for A.  As long as the  *)
(* cache holds no usable credentials for A, an invocation for A that       *)
(* reaches the credential step sends assume-role again; when that call     *)
(* succeeds, the new credentials are stored under A and the invocation     *)
(* goes on to its initialize or tools/call with them.  Usable credentials  *)
(* for A appear in the cache only by such a successful call.               *)
(***************************************************************************)
C22_Bridge(r) == r.shape \in {"gateway", "direct"}

C22_Failed(r) == C22_Bridge(r) /\ r.result.error = AssumeRoleDenied

C22_Unusable(cache, account_id, t) ==
    cache[account_id] = NoCred \/ ~(t + RefreshBuffer < cache[account_id].expiration)

C22_FailedAssumptionChangesNothing ==
    /\ [](\A p \in LambdaSlots :
             LET r == inv[p] IN
             C22_Failed(r)
                => /\ r.pc = "done"
                   /\ ~r.result.raised
                   /\ r.result.body = NoBody
                   /\ r.shape = "direct" => r.result.statusCode = 500
                   /\ r.calls = <<StsRequest(r.account)>>
                   /\ r.session = NoSession
                   /\ credential_cache = r.pre_cc
                   /\ session_cache = r.pre_sc
                   /\ global_session_id = r.pre_gs
                   /\ C22_Unusable(credential_cache, r.account, now))
    /\ [][\A p \in LambdaSlots :
             /\ (~C22_Failed(inv[p]) /\ C22_Failed(inv'[p]))
                   => /\ inv[p].pc = "assume_role"
                      /\ credential_cache' = credential_cache
                      /\ session_cache' = session_cache
                      /\ global_session_id' = global_session_id
             /\ (/\ inv[p].pc = "idle"
                 /\ C22_Bridge(inv'[p])
                 /\ inv'[p].called
                 /\ inv'[p].scope \in Accounts
                 /\ C22_Unusable(credential_cache, inv'[p].scope, now))
                   => /\ inv'[p].pc = "assume_role"
                      /\ inv'[p].calls = <<StsRequest(inv'[p].scope)>>
             /\ (/\ C22_Bridge(inv[p])
                 /\ inv[p].pc = "assume_role"
                 /\ inv'[p] # inv[p]
                 /\ ~C22_Failed(inv'[p]))
                   => /\ ~C22_Unusable(credential_cache', inv[p].account, now)
                      /\ credential_cache'[inv[p].account].access_key_id =
                            [ role_account |-> inv[p].account,
                              role |-> TARGET_ROLE_NAME, issued |-> now ]
                      /\ inv'[p].pc \in {"initialize", "tools_call"}
                      /\ inv'[p].result = NoResult
                      /\ inv'[p].creds = credential_cache'[inv[p].account]
                      /\ LastCall(inv'[p]).signer = inv'[p].creds
         ]_vars
    /\ [][\A a \in Accounts :
             (/\ deployment = "agentcore-gateway"
              /\ C22_Unusable(credential_cache, a, now)
              /\ ~C22_Unusable(credential_cache', a, now'))
                => \E p \in LambdaSlots :
                      /\ inv[p].pc = "assume_role"
                      /\ inv[p].account = a
                      /\ inv'[p].pc \in {"initialize", "tools_call"}
         ]_vars

\* the assume-role for an account has failed while the cache holds expired
\* credentials and a session of that account
C22_Witness ==
    \E p \in LambdaSlots :
        /\ C22_Failed(inv[p])
        /\ inv[p].pc = "done"
        /\ credential_cache[inv[p].account] # NoCred
        /\ session_cache[inv[p].account] # NoSession

(***************************************************************************)
(* C23  list_accounts.  The list AccountManager.list_accounts returns      *)
(* holds one element for every registry entry whose role is not central    *)
(* and no other: the j-th element comes from the j-th such entry in        *)
(* registry order and holds its id, its name and its environment, or       *)
(* 'unknown' for an entry without environment, and nothing else.  No id of *)
(* a central entry is in the result.                                       *)
(***************************************************************************)
C23_Entries == IF accounts.present THEN accounts.value ELSE <<>>

C23_Targets == {i \in 1..Len(C23_Entries) : C23_Entries[i].role # "central"}

\* the position in the registry of the j-th entry that is not central
C23_Position(j) ==
    CHOOSE i \in C23_Targets : Cardinality({k \in C23_Targets : k <= i}) = j

C23_ListAccounts ==
    listed.called
       => /\ DOMAIN listed.value = 1..Cardinality(C23_Targets)
          /\ \A j \in DOMAIN listed.value :
                LET acc == C23_Entries[C23_Position(j)] IN
                /\ DOMAIN listed.value[j] = {"id", "name", "environment"}
                /\ listed.value[j].id = acc.id
                /\ listed.value[j].name = acc.name
                /\ listed.value[j].environment =
                      IF acc.environment = Absent THEN "unknown" ELSE acc.environment
          /\ \A i \in 1..Len(C23_Entries) :
                C23_Entries[i].role = "central"
                   => \A j \in DOMAIN listed.value :
                         listed.value[j].id # C23_Entries[i].id

\* a registry of a target without environment, the central account and a
\* target without role, in that order, has been listed
C23_Witness ==
    /\ listed.called
    /\ accounts.present
    /\ Len(accounts.value) = 3
    /\ accounts.value[1].role = "workload" /\ accounts.value[1].environment = Absent
    /\ accounts.value[2].role = "central"
    /\ accounts.value[3].role = Absent
    /\ Len(listed.value) = 2

(***************************************************************************)
(* C24  One proxy run per call.  A call of MCPClient.call_tool or          *)
(* list_tools starts the proxy once, on its own request, and never a       *)
(* second time.  When the proxy of a call_tool exits with code 0 and a     *)
(* JSON-RPC response on its output, call_tool returns that response; when  *)
(* it exits with another code, the call raises RuntimeError 'MCP proxy     *)
(* error:' with the proxy's error output and returns nothing.  list_tools  *)
(* returns the tools of the response's result, and the empty list for a    *)
(* response without result or a result without tools.                      *)
(***************************************************************************)
C24_Answered == mcp_client.pc = "done" /\ mcp_client.proc.response # <<>>

C24_OneProxyRun ==
    /\ mcp_client.pc = "idle" => mcp_client.runs = <<>>
    /\ mcp_client.pc \in {"running", "done"}
          => /\ Len(mcp_client.runs) = 1
             /\ mcp_client.runs[1].input = mcp_client.request
             /\ mcp_client.request.method =
                   IF mcp_client.op = "call_tool" THEN "tools/call" ELSE "tools/list"
    /\ (C24_Answered /\ mcp_client.op = "call_tool")
          => /\ mcp_client.raised = <<>>
             /\ mcp_client.returned = mcp_client.proc.response
    /\ (mcp_client.pc = "done" /\ mcp_client.proc.returncode \notin {0, -1})
          => /\ mcp_client.raised =
                   <<"RuntimeError", "MCP", "proxy", "error:">> \o mcp_client.proc.stderr
             /\ mcp_client.returned = <<>>
    /\ (C24_Answered /\ mcp_client.op = "list_tools")
          => /\ mcp_client.raised = <<>>
             /\ mcp_client.returned =
                   IF /\ mcp_client.proc.response[3][1] = "result"
                      /\ mcp_client.proc.response[3][2] # <<>>
                      /\ mcp_client.proc.response[3][2][1] = "tools"
                   THEN Tail(mcp_client.proc.response[3][2])
                   ELSE <<>>

\* call_tool has raised for a proxy that exited with code 1 after its one
\* run
C24_Witness ==
    /\ mcp_client.pc = "done"
    /\ mcp_client.op = "call_tool"
    /\ mcp_client.proc.returncode = 1
    /\ mcp_client.raised # <<>>
    /\ Len(mcp_client.runs) = 1

(***************************************************************************)
(* C25  Agent tool dispatch.  On an agent with a Gateway URL, a            *)
(* process_tool_call that has ended has, for list_accounts, read the       *)
(* registry once and built no Gateway request; for query_aws_resources,    *)
(* called the Gateway exactly once and returned the serialized response;   *)
(* for any other name, returned an 'Unknown tool' error object, read no    *)
(* registry and built no Gateway request.                                  *)
(***************************************************************************)
C25_ToolDispatch ==
    (/\ agent.entry = "process_tool_call"
     /\ agent.pc = "done"
     /\ HasScheme(agent.GATEWAY_URL))
       => /\ agent.tool.name = "list_accounts"
                => /\ agent.registry_reads = 1
                   /\ agent.mcp_requests = <<>>
                   /\ agent.http_requests = 0
          /\ agent.tool.name = "query_aws_resources"
                => /\ Len(agent.mcp_requests) = 1
                   /\ agent.http_requests = 1
                   /\ agent.registry_reads = 0
                   /\ agent.raised = <<>>
                   /\ \E result \in GatewayResults : agent.returned = JsonDumps(result)
          /\ agent.tool.name \notin {"list_accounts", "query_aws_resources"}
                => /\ agent.raised = <<>>
                   /\ JsonLoads(agent.returned) =
                         << <<"error", <<"Unknown", "tool:", agent.tool.name>>>> >>
                   /\ agent.registry_reads = 0
                   /\ agent.mcp_requests = <<>>
                   /\ agent.http_requests = 0

(***************************************************************************)
(* C26  The tool loop of converse_with_tools, as claimed.  A run that has  *)
(* returned has left no tool_use response unanswered: its last model       *)
(* response is no tool_use response, every tool_use response before it     *)
(* was followed by its user message of results and one further model call, *)
(* the model was called once more than tool_use responses were handled,    *)
(* and the returned text is the first text block of the last response.     *)
(***************************************************************************)
C26_ToolUses(content) == SelectSeq(content, LAMBDA b : b.kind = "toolUse")

C26_Texts(content) == SelectSeq(content, LAMBDA b : b.kind = "text")

C26_Converse == agent.entry = "converse_with_tools"

\* the user message answers the assistant message: one toolResult for each
\* toolUse block, in order, with its toolUseId
C26_Answers(user, assistant) ==
    /\ assistant.role = "assistant"
    /\ user.role = "user"
    /\ Len(user.content) = Len(C26_ToolUses(assistant.content))
    /\ \A j \in 1..Len(user.content) :
          /\ user.content[j].kind = "toolResult"
          /\ user.content[j].toolUseId = C26_ToolUses(assistant.content)[j].toolUseId

\* the calls of process_tool_call of the round are those of the first n
\* toolUse blocks of the response, in order
C26_CalledInOrder(n) ==
    /\ Len(agent.tool_calls) = n
    /\ n <= Len(C26_ToolUses(agent.response.message.content))
    /\ \A j \in 1..n :
          LET b == C26_ToolUses(agent.response.message.content)[j] IN
          agent.tool_calls[j] = [toolUseId |-> b.toolUseId, name |-> b.name, input |-> b.input]

\* every handled tool_use response of the run has its answer behind it
C26_RoundsAnswered ==
    /\ Len(agent.messages) = 1 + 2 * agent.handled
    /\ \A k \in 1..agent.handled :
          /\ agent.messages[2 * k] = ScriptResponse(agent.script, k).message
          /\ ScriptResponse(agent.script, k).stopReason = "tool_use"
          /\ C26_Answers(agent.messages[2 * k + 1], agent.messages[2 * k])

C26_ToolUseLoop ==
    (C26_Converse /\ agent.pc = "done" /\ agent.raised = <<>>)
       => /\ agent.response = ScriptResponse(agent.script, agent.model_calls)
          /\ agent.response.stopReason # "tool_use"
          /\ C26_RoundsAnswered
          /\ agent.model_calls = agent.handled + 1
          /\ C26_Texts(agent.response.message.content) # <<>>
          /\ agent.returned = C26_Texts(agent.response.message.content)[1].text

(***************************************************************************)
(* C26, as the code has it.  Each of the first max_iterations tool_use     *)
(* responses of a run is handled: process_tool_call is called for its      *)
(* toolUse blocks one after the other in block order; when all of them     *)
(* have returned, one user message with one toolResult per block, in       *)
(* order and with the block's toolUseId, is appended behind the assistant  *)
(* message, and the model is called exactly once more.  A call of the      *)
(* model or of a tool that raises ends the run with that exception.  At    *)
(* every moment after the first model call the model has been called once  *)
(* more than tool_use responses were handled.  The run returns on the      *)
(* first response that is no tool_use response, or on the response after   *)
(* the last handled one, and returns the first text block of that          *)
(* response, or a fixed sentence when it holds no text block.              *)
(***************************************************************************)
C26_HandledToolUseLoop ==
    C26_Converse
       => /\ agent.handled <= max_iterations
          /\ agent.iteration \in {agent.handled, agent.handled + 1}
          /\ agent.model_calls > 0 => agent.model_calls = agent.handled + 1
          /\ agent.model_calls = 0 => agent.pc \in {"scan", "done"} /\ agent.messages = 
                << Message("user", <<TextBlock(<<"prompt">>)>>) >>
          /\ agent.pc = "converse"
                => /\ C26_RoundsAnswered
                   /\ agent.handled > 0 => C26_CalledInOrder(
                         Len(C26_ToolUses(agent.messages[2 * agent.handled].content)))
          /\ (agent.pc \in {"scan", "gateway"} /\ agent.model_calls > 0)
                => /\ agent.response = ScriptResponse(agent.script, agent.model_calls)
                   /\ agent.response.stopReason = "tool_use"
                   /\ agent.iteration = agent.handled + 1
                   /\ agent.messages[Len(agent.messages)] = agent.response.message
                   /\ Len(agent.messages) = 2 + 2 * agent.handled
                   /\ C26_CalledInOrder(Len(agent.tool_results) + 1)
                   /\ \A j \in 1..Len(agent.tool_results) :
                         /\ agent.tool_results[j].kind = "toolResult"
                         /\ agent.tool_results[j].toolUseId = agent.tool_calls[j].toolUseId
          /\ (agent.pc = "done" /\ agent.raised = <<>>)
                => /\ agent.response = ScriptResponse(agent.script, agent.model_calls)
                   /\ \/ agent.response.stopReason # "tool_use"
                      \/ agent.handled = max_iterations
                   /\ C26_RoundsAnswered
                   /\ agent.returned =
                         IF C26_Texts(agent.response.message.content) # <<>>
                         THEN C26_Texts(agent.response.message.content)[1].text
                         ELSE <<"I", "couldn't", "generate", "a", "response.">>
          /\ (agent.pc = "done" /\ agent.raised # <<>>)
                => agent.returned = <<>>

\* a run has returned the first of two texts after it handled a response
\* of two toolUse blocks
C26_Witness ==
    /\ C26_Converse
    /\ agent.pc = "done"
    /\ agent.raised = <<>>
    /\ agent.handled >= 1
    /\ Len(C26_ToolUses(agent.messages[2 * agent.handled].content)) = 2
    /\ Len(agent.messages[2 * agent.handled + 1].content) = 2
    /\ Len(C26_Texts(agent.response.message.content)) = 2

(***************************************************************************)
(* C27  Agent-to-bridge compatibility.  Every request call_gateway_mcp     *)
(* builds is a tools/call for bridge-lambda___query whose arguments are    *)
(* account_id, tool_name, arguments and region.  When the Gateway has      *)
(* handed it to the bridge, the handler is in its Gateway shape and on its *)
(* query branch, has read the request's account, tool, arguments and       *)
(* region, passes the tool and the arguments on where it goes on to a      *)
(* call, and the account and the region too where the call is account-     *)
(* scoped, and its answer, if it has one already, does not say 'Unknown    *)
(* tool'.                                                                  *)
(***************************************************************************)
C27_LastRequest == agent.mcp_requests[Len(agent.mcp_requests)]

C27_ProtocolCompatible ==
    /\ \A i \in 1..Len(agent.mcp_requests) :
          LET request == agent.mcp_requests[i] IN
          /\ request.method = "tools/call"
          /\ request.name = <<"bridge-lambda", "query">>
          /\ DOMAIN request.arguments = {"account_id", "tool_name", "arguments", "region"}
    /\ (agent.pc = "gateway" /\ agent.delivered)
          => LET r == inv[1]
                 sent == C27_LastRequest.arguments
             IN  /\ r.pc # "idle"
                 /\ r.shape = "gateway"
                 /\ r.ev.ctx = <<"bridge-lambda", "query">>
                 /\ IsQuery(r)
                 /\ r.tool = sent.tool_name
                 /\ r.account = sent.account_id
                 /\ r.arguments = sent.arguments
                 /\ r.region = sent.region
                 /\ ~Names(r.result.error, "Unknown")
                 /\ r.pc = "done" => r.result.error = MissingToolName
                 /\ r.pc # "done"
                       => /\ Len(r.path) = 1
                          /\ r.path[1].tool_name = sent.tool_name
                          /\ r.path[1].arguments = sent.arguments
                          /\ r.path[1].fn = "call_aws_mcp"
                                => /\ r.path[1].account_id = sent.account_id
                                   /\ r.path[1].region = sent.region

\* the bridge is at its assume-role for a query the agent sent with the
\* defaults of process_tool_call
C27_Witness ==
    /\ agent.pc = "gateway"
    /\ agent.delivered
    /\ inv[1].pc = "assume_role"
    /\ inv[1].account = "333333333333"
    /\ inv[1].tool = "aws___call_aws"
    /\ inv[1].region = "us-east-1"
    /\ inv[1].arguments = <<>>

(***************************************************************************)
(* C28  Call ordering inside one invocation.  In an account-scoped         *)
(* invocation no assume-role request comes after an initialize or a        *)
(* tools/call and no initialize after a tools/call, and there is at most   *)
(* one tools/call.  A tools/call carries the session handle the registry   *)
(* holds for the resolved scope; after a refused assume-role or a failed   *)
(* handshake the invocation is over without a tools/call.  An invocation   *)
(* of the bridge for an account that started with neither credentials nor  *)
(* a session of the account and returned without an error has sent         *)
(* exactly assume-role, initialize, tools/call, in this order.             *)
(***************************************************************************)
C28_Rank(method) ==
    IF method = "assume_role" THEN 1 ELSE IF method = "initialize" THEN 2 ELSE 3

C28_Methods(r) == [i \in 1..Len(r.calls) |-> r.calls[i].method]

C28_Failed(r) ==
    \/ r.result.error = AssumeRoleDenied
    \/ HandshakeFailed(r.handshake)

C28_Successful(r) ==
    /\ r.pc = "done"
    /\ r.shape \in {"gateway", "direct"}
    /\ ~r.result.raised
    /\ r.result.error = <<>>

C28_CallOrdering ==
    \A p \in Slots :
        LET r == inv[p] IN
        /\ r.scope \in Accounts
              => /\ \A i, j \in 1..Len(r.calls) :
                       i < j => C28_Rank(r.calls[i].method) <= C28_Rank(r.calls[j].method)
                 /\ Count(r, "tools/call") <= 1
        /\ \A i \in 1..Len(r.calls) :
              r.calls[i].method = "tools/call"
                 => /\ r.calls[i].header # NoSession
                    /\ r.calls[i].header = SessionEntry(r.scope)
        /\ C28_Failed(r) => r.pc = "done" /\ ~Sent(r, "tools/call")
        /\ ( /\ C28_Successful(r)
             /\ r.scope \in Accounts
             /\ r.pre_cc[r.scope] = NoCred
             /\ r.pre_sc[r.scope] = NoSession )
              => C28_Methods(r) = <<"assume_role", "initialize", "tools/call">>

\* on a context that holds nothing for the account, an invocation for it
\* was answered a result
C28_Witness ==
    \E p \in Slots :
        /\ C28_Successful(inv[p])
        /\ inv[p].scope \in Accounts
        /\ inv[p].pre_cc[inv[p].scope] = NoCred
        /\ inv[p].pre_sc[inv[p].scope] = NoSession
        /\ inv[p].result.body.kind = "result"
        /\ Len(inv[p].calls) = 3

(***************************************************************************)
(* C29  Session handles never cross scopes.  A handle is the pair of the   *)
(* identity whose signature was on the initialize that the server answered *)
(* with it, and of its value.  Every initialize, and every assume-role, is *)
(* sent without a session header; every tools/call of an invocation for    *)
(* account A is signed with credentials of A and carries a handle of A;    *)
(* every tools/call of a global operation is signed with the ambient       *)
(* identity and carries a handle of the ambient identity; and the registry *)
(* holds under account A only handles of A, for the global operations only *)
(* handles of the ambient identity.                                        *)
(***************************************************************************)
C29_HandleOf(scope, handle) == handle # NoSession /\ handle.scope = scope

C29_RegistryWithinScopes ==
    /\ \A a \in Accounts : session_cache[a] = NoSession \/ C29_HandleOf(a, session_cache[a])
    /\ global_session_id = NoSession \/ C29_HandleOf("global", global_session_id)

C29_NoCrossScopeSession ==
    /\ C29_RegistryWithinScopes
    /\ \A p \in Slots :
          LET r == inv[p] IN
          \A i \in 1..Len(r.calls) :
             LET c == r.calls[i] IN
             /\ c.method # "tools/call" => c.header = NoSession
             /\ c.method = "tools/call"
                   => /\ r.scope \in Scopes
                      /\ SignerScope(c.signer) = r.scope
                      /\ C29_HandleOf(r.scope, c.header)
                      /\ r.session = c.header

\* the context holds the session of the global operations and a session
\* of another account, and an invocation for an account has sent its
\* tools/call on the session it had to establish first
C29_Witness ==
    \E p \in Slots :
        /\ inv[p].scope \in Accounts
        /\ global_session_id # NoSession
        /\ \E a \in Accounts \ {inv[p].scope} : session_cache[a] # NoSession
        /\ inv[p].pre_sc[inv[p].scope] = NoSession
        /\ Sent(inv[p], "initialize")
        /\ Sent(inv[p], "tools/call")

(***************************************************************************)
(* C30  Credentials are bound to the named account.  Every initialize and  *)
(* every tools/call of an invocation for account A is signed with the      *)
(* credentials get_credentials(A) returned, which are those of an answer   *)
(* of STS to assume-role of the fixed role in A, and not the ambient       *)
(* identity; every assume-role request of the invocation names the fixed   *)
(* role in A; the entry the credential cache holds under A is one of an    *)
(* answer to assume-role for A, and it changes only in the step in which   *)
(* an assume-role request for A is answered.                               *)
(***************************************************************************)
C30_AssumedFor(creds, a) ==
    \E t \in 0..now :
        \/ creds = CredsOfResponse(AssumeRoleResponse(a, t))
        \/ creds = AccountCredentials(AssumeRoleResponse(a, t), a)

C30_OfFixedRoleIn(creds, a) ==
    /\ creds.access_key_id = [role_account |-> a, role |-> TARGET_ROLE_NAME,
                              issued |-> creds.expiration - SessionDuration]
    /\ creds.secret_access_key = creds.access_key_id
    /\ creds.session_token = creds.access_key_id

C30_SignedForAccount(r) ==
    \A i \in 1..Len(r.calls) :
       LET c == r.calls[i] IN
       /\ c.method = "assume_role"
             => c.account = r.scope /\ c.name = TARGET_ROLE_NAME
       /\ c.method \in {"initialize", "tools/call"}
             => /\ c.signer # Ambient
                /\ c.signer = r.creds
                /\ c.account = r.scope
                /\ C30_AssumedFor(c.signer, r.scope)
                /\ C30_OfFixedRoleIn(c.signer, r.scope)

C30_CredentialsBoundToAccount ==
    /\ [](/\ \A p \in Slots : inv[p].scope \in Accounts => C30_SignedForAccount(inv[p])
          /\ \A a \in Accounts :
                credential_cache[a] # NoCred
                   => /\ C30_AssumedFor(credential_cache[a], a)
                      /\ C30_OfFixedRoleIn(credential_cache[a], a))
    /\ [][\A a \in Accounts :
             credential_cache'[a] # credential_cache[a]
                => \E p \in Slots :
                      /\ inv[p].pc = "assume_role"
                      /\ inv[p].scope = a
                      /\ LastCall(inv[p]).method = "assume_role"
                      /\ LastCall(inv[p]).account = a
                      /\ inv'[p].creds = credential_cache'[a]]_vars

\* while usable credentials of another account are cached, an invocation
\* for an account that had none obtained its own and signed an initialize
\* and a tools/call
C30_Witness ==
    \E p \in Slots :
        /\ inv[p].scope \in Accounts
        /\ inv[p].pre_cc[inv[p].scope] = NoCred
        /\ \E b \in Accounts \ {inv[p].scope} :
              /\ inv[p].pre_cc[b] # NoCred
              /\ CredentialsUsable(inv[p].pre_cc[b], now)
        /\ Sent(inv[p], "assume_role")
        /\ Sent(inv[p], "initialize")
        /\ Sent(inv[p], "tools/call")

(***************************************************************************)
(* C31  Every invocation terminates.  An invocation of the bridge whose    *)
(* outbound calls each end, in an answer or in an exception, ends: in      *)
(* every state in which it is in an outbound call, a later state has it    *)
(* returned, whatever another invocation on the same context does, which   *)
(* may stay in a call for ever.  An invocation sends at most three         *)
(* requests; once it has sent one, it ends by returning the downstream     *)
(* response or an error object, not by an exception; and in every state in *)
(* which it is in an outbound call, the step that takes the answer can be  *)
(* taken.                                                                  *)
(***************************************************************************)
C31_InCall(r) == r.pc \in {"assume_role", "initialize", "tools_call"}

C31_Returned(r) ==
    /\ r.pc = "done"
    /\ \/ r.result.error # <<>>
       \/ r.result.body.kind \in {"result", "error"}
    /\ Len(r.calls) > 0
          => /\ ~r.result.raised
             /\ r.result.body = NoBody <=> r.result.error # <<>>

C31_Bounded(r) ==
    /\ Len(r.calls) <= 3
    /\ r.pc \in {"idle", "assume_role", "initialize", "tools_call", "done"}
    /\ r.pc = "done" => C31_Returned(r)
    /\ C31_InCall(r) => Len(r.calls) > 0 /\ r.result = NoResult

C31_EveryInvocationTerminates ==
    /\ [](\A p \in Slots : C31_Bounded(inv[p]))
    /\ C31_InCall(inv[1]) ~> C31_Returned(inv[1])

\* the first invocation has returned the downstream result after three
\* requests while the other one is still in its first call
C31_Witness ==
    /\ C31_Returned(inv[1])
    /\ Len(inv[1].calls) = 3
    /\ inv[1].result.body.kind = "result"
    /\ inv[2].pc = "assume_role"
    /\ inv[2].scope = inv[1].scope

(***************************************************************************)
(* C32  Initialize first.  A proxy session is one proxy process, and the   *)
(* requests of the session are what the process reads from its standard    *)
(* input.  In every session the MCPClient opens, each tools/call or        *)
(* tools/list request comes after an initialize request of the same        *)
(* session.                                                                *)
(***************************************************************************)
C32_InitializeFirst ==
    \A i \in 1..Len(mcp_client.runs) :
        LET requests == ProxySessionRequests(mcp_client.runs[i]) IN
        \A j \in 1..Len(requests) :
            requests[j].method \in {"tools/call", "tools/list"}
               => \E k \in 1..(j - 1) : requests[k].method = "initialize"

(***************************************************************************)
(* C33  The tool-use loop is bounded and terminates.  Whatever the model   *)
(* answers, tool_use for ever included, converse_with_tools works off at   *)
(* most 10 tool_use responses and calls the model at most 11 times, and    *)
(* converse_with_tools_streaming calls the model at most 10 times.  Every  *)
(* step of a run that is in a call (of the model, the accounts table or    *)
(* the Gateway) ends the run or moves it forward in the order of model     *)
(* calls, blocks of the response in work and delivery of the request,      *)
(* where the model calls are bounded as said and the blocks by the length  *)
(* of the response: so a run whose calls each end is over after a bounded  *)
(* number of steps.                                                        *)
(***************************************************************************)
C33_InCall(a) == a.pc \in {"converse", "converse_stream", "scan", "gateway"}

\* a is before b in the order of model calls, then blocks of the response
\* in work, then delivery of the request
C33_Before(a, b) ==
    \/ a.model_calls < b.model_calls
    \/ /\ a.model_calls = b.model_calls
       /\ \/ a.block < b.block
          \/ a.block = b.block /\ ~a.delivered /\ b.delivered

C33_BoundedToolUseLoop ==
    /\ [](/\ agent.pc \in {"idle", "done"} \/ C33_InCall(agent)
          /\ agent.block <= Len(agent.response.message.content)
          /\ agent.entry = "converse_with_tools"
             => /\ agent.handled <= max_iterations
                /\ agent.iteration <= max_iterations
                /\ agent.model_calls <= max_iterations + 1
                /\ agent.model_calls <= agent.handled + 1
          /\ agent.entry = "converse_with_tools_streaming"
             => /\ agent.handled <= max_iterations
                /\ agent.model_calls <= max_iterations
                /\ agent.model_calls = agent.iteration)
    /\ [][C33_InCall(agent)
             => \/ agent'.pc = "done"
                \/ /\ C33_InCall(agent')
                   /\ C33_Before(agent, agent')]_vars

\* the model answers tool_use for ever: the streaming run has finished
\* after its tenth model call
C33_Witness ==
    /\ agent.entry = "converse_with_tools_streaming"
    /\ agent.pc = "done"
    /\ agent.script.rest.stopReason = "tool_use"
    /\ agent.model_calls = max_iterations
    /\ agent.handled = max_iterations
    /\ agent.raised = <<>>

(***************************************************************************)
(* C34  Streaming completion.  A run of converse_with_tools_streaming that *)
(* is over has yielded 'done' exactly once, as its last event, and no      *)
(* exception has left it; it has yielded at most one 'error' event, and    *)
(* that one directly before 'done'; an 'error' event is the end of the     *)
(* run, so that no model call follows it; and each 'tool_call' event is    *)
(* directly followed by the 'tool_result' event of the same tool.          *)
(***************************************************************************)
C34_Positions(type) ==
    {i \in 1..Len(agent.events) : agent.events[i].type = type}

C34_StreamingCompletion ==
    agent.entry = "converse_with_tools_streaming"
       => /\ C34_Positions("error") # {} => agent.pc = "done"
          /\ agent.pc = "done"
                => /\ agent.raised = <<>>
                   /\ C34_Positions("done") = {Len(agent.events)}
                   /\ agent.events # <<>>
                   /\ C34_Positions("error") \subseteq {Len(agent.events) - 1}
          /\ \A i \in C34_Positions("tool_call") :
                \/ i = Len(agent.events) /\ agent.pc \in {"scan", "gateway"}
                \/ /\ i < Len(agent.events)
                   /\ agent.events[i + 1].type = "tool_result"
                   /\ agent.events[i + 1].name = agent.events[i].name

(***************************************************************************)
(* C35  Well-formed conversation history.  Whenever converse_with_tools or *)
(* converse_with_tools_streaming is in a model call, the message list it   *)
(* sent starts with a user message, alternates user and assistant roles    *)
(* and ends with a user message; and every user message after the first    *)
(* consists of toolResult blocks, one per toolUse block of the assistant   *)
(* message directly before it, in the same order and with the same         *)
(* toolUseId.                                                              *)
(***************************************************************************)
C35_ToolUses(message) == SelectSeq(message.content, LAMBDA b : b.kind = "toolUse")

C35_Answers(assistant, user) ==
    /\ assistant.role = "assistant"
    /\ Len(user.content) = Len(C35_ToolUses(assistant))
    /\ \A j \in 1..Len(user.content) :
          /\ user.content[j].kind = "toolResult"
          /\ user.content[j].toolUseId = C35_ToolUses(assistant)[j].toolUseId

C36_Credential(creds) ==
    IF creds = NoCred THEN NoCred
    ELSE [ access_key_id     |-> creds.access_key_id,
           secret_access_key |-> creds.secret_access_key,
           session_token     |-> creds.session_token,
           expiration        |-> creds.expiration ]

C36_Reused(broker) == broker.pc = "done" /\ broker.request = NoAssumeRole

C36_BrokersAgree ==
    LET b == brokers IN
    /\ b.handler.pc = b.manager.pc
    /\ b.handler.request = b.manager.request
    /\ b.handler.raised = b.manager.raised
    /\ C36_Credential(b.handler.returned) = C36_Credential(b.manager.returned)
    /\ \A a \in Accounts :
          C36_Credential(b.handler_cache[a]) = C36_Credential(b.manager_cache[a])
    /\ b.handler.request # NoAssumeRole
          => /\ b.handler.request.account_id = b.account
             /\ b.handler.request.role = "CentralOpsTargetRole"
             /\ b.handler.request.DurationSeconds = 60
    /\ b.handler.pc # "idle"
          => /\ C36_Reused(b.handler)
                   <=> /\ b.pre_handler[b.account] # NoCred
                       /\ b.at + 5 < b.pre_handler[b.account].expiration
             /\ C36_Reused(b.manager)
                   <=> /\ b.pre_manager[b.account] # NoCred
                       /\ b.at + 5 < b.pre_manager[b.account].expiration
             /\ C36_Reused(b.handler)
                   => /\ b.handler_cache = b.pre_handler
                      /\ b.manager_cache = b.pre_manager
                      /\ b.handler.returned = b.pre_handler[b.account]
                      /\ b.manager.returned = b.pre_manager[b.account]

\* called on the boundary now + 5 minutes = expiration, both brokers have
\* refreshed the credentials
C36_Witness ==
    /\ brokers.handler.pc = "done"
    /\ brokers.manager.pc = "done"
    /\ brokers.pre_handler[brokers.account] # NoCred
    /\ brokers.at + 5 = brokers.pre_handler[brokers.account].expiration
    /\ brokers.handler.returned.access_key_id.issued = brokers.at
    /\ brokers.manager.returned.access_key_id.issued = brokers.at
    /\ brokers.manager_cache[brokers.account] = brokers.manager.returned

(***************************************************************************)
(* C37  The two shapes are equivalent up to the wrapping of the response.  *)
(* A query handled in the Gateway shape and the same query (operation      *)
(* name, arguments, account identifier, region) handled in the direct      *)
(* shape from the same caches send the same outbound calls as long as the  *)
(* earlier calls were answered alike; when every call was answered alike   *)
(* they have sent the same calls, taken the same path, left the same       *)
(* credential cache and session caches, and hold the same error message    *)
(* or the same response, which the direct shape returns serialised as the  *)
(* body beside a statusCode and the Gateway shape returns as it is.        *)
(***************************************************************************)
\* what the i-th outbound call of an invocation was answered
C37_Answer(r, i) ==
    LET m == r.calls[i].method
        pending == i = Len(r.calls) /\ r.pc \notin {"done", "rewound"}
    IN  [ pending   |-> pending,
          issued    |-> m = "assume_role" /\ ~pending /\ r.creds # NoCred,
          handshake |-> IF m = "initialize" /\ ~pending THEN r.handshake ELSE NoHandshake,
          session   |-> IF m = "initialize" /\ ~pending THEN r.session ELSE NoSession,
          body      |-> IF m = "tools/call" /\ ~pending THEN r.received ELSE NoBody ]

\* the first k calls of both were made and answered alike
C37_AnsweredAlike(g, d, k) ==
    \A j \in 1..k :
        /\ j <= Len(g.calls)
        /\ j <= Len(d.calls)
        /\ C37_Answer(g, j) = C37_Answer(d, j)

\* the object the Gateway shape returns
C37_Returned(g) ==
    IF g.result.error # <<>> THEN ErrorObject(g.result.error)
    ELSE ResponseObject(g.result.body)

C38_GatewayCallNeverRaises ==
    (/\ agent.entry = "process_tool_call"
     /\ agent.pc = "done"
     /\ agent.mcp_requests # <<>>)
       => /\ agent.raised = <<>>
          /\ agent.http_requests = Len(agent.mcp_requests)
          /\ \E result \in GatewayResults : JsonLoads(agent.returned) = result

====
